---- MODULE Spec2Model ----
(***************************************************************************)
(* Model of the WhatsApp OTPless authentication service: the verification  *)
(* token store, the auth orchestrator (initiate / confirm / refresh /      *)
(* logout), the webhook processor Durable Object and the per-session       *)
(* WebSocket relay Durable Object.                                         *)
(*                                                                         *)
(* Every request is an independent invocation.  An invocation is split at  *)
(* its D1 / Durable Object round trips (the awaits at which the runtime    *)
(* lets other requests run); the synchronous code between two round trips, *)
(* including every Date.now() it reads, belongs to the step of the round   *)
(* trip that follows it.  Two round trips share a step only where the      *)
(* first one reads or writes nothing any other step writes or reads, so    *)
(* that the merged step has the same outcomes: the read of the Durable     *)
(* Object's 'processed' flag with the token SELECT, the write of           *)
(* 'processed' with the SELECT that rejects the token, the write of        *)
(* last_login with the user lookup, the POST to the relay with the peek.   *)
(***************************************************************************)
EXTENDS Integers, Sequences, FiniteSets, TLC

VARIABLES
    now,        \* Math.floor(Date.now() / 1000)
    ticks,      \* number of clock advances so far (bounds the run)
    nextId,     \* source of generateRandomId / generateSecureToken values
    users,      \* table users
    vtokens,    \* table verification_tokens
    rtokens,    \* table refresh_tokens
    attempts,   \* results of initiateLogin: what the caller and the phone got
    calls,      \* in-flight and finished invocations (webhook, refresh, logout)
    processed,  \* WebhookProcessorDO storage 'processed', per message id
    sessions,   \* AuthSessionDO.sessions, per Durable Object instance
    ws,         \* the WebSockets of the clients
    spent,      \* history: secrets for which a confirm has returned credentials
    rotated,    \* history: refresh secrets a refresh has exchanged successfully
    presented,  \* history: refresh secrets already presented with their owner id
    loggedOut,  \* history: refresh_tokens ids revoked by logout, and 0 - u for
                \* every user id u that ran a logout without refresh token
    peeked      \* history: secrets of the payloads verifyLoginTokenOnly was given

vars == <<now, ticks, nextId, users, vtokens, rtokens, attempts, calls,
          processed, sessions, ws, spent, rotated, presented, loggedOut, peeked>>

---------------------------------------------------------------------------
(* Bounds of the model *)

MaxTicks == 2
MaxIds == 6
MaxTokens == 2
MaxProcs == 2
MaxChans == 2
MaxMsgs == 2
MaxPrefix == 4

(* Program constants *)

VERIFICATION_TTL == 10 * 60
REFRESH_TTL == 30 * 24 * 60 * 60
ACCESS_TTL == 15 * 60
RandomIdLength == 16
DurableObjectIdLength == 64

\* SQL NULL / JS null for the nullable time columns (time itself starts at 1)
NoTime == 0
\* a random secret that generateSecureToken never returned (ids start at 1)
ForgedSecret == 0 - 1
\* the empty string, a missing or falsy payload field
Empty == 0

Procs == 1..MaxProcs
Chans == 1..MaxChans
MsgIds == 1..MaxMsgs

Digits == {"0", "1", "2", "3", "4", "5", "6", "7", "8", "9"}

\* phone numbers as the callers type them
RawPhones == { <<"+", "1", " ", "5", "5">>, <<"1", "5", "5">>, <<"+", "4", "4", "-", "7">> }
\* phone numbers as WhatsApp reports the sender of a message
SenderPhones == { <<"1", "5", "5">>, <<"4", "4", "7">> }

---------------------------------------------------------------------------
(* utils/phone.ts, AuthService.formatPhoneNumber, utils/crypto.ts *)

IsDigit(c) == c \in Digits

digitsOnly(phone) == SelectSeq(phone, IsDigit)

startsWith(s, prefix) ==
    /\ Len(s) >= Len(prefix)
    /\ SubSeq(s, 1, Len(prefix)) = prefix

formatPhoneNumber(phone) ==
    LET digits == digitsOnly(phone)
    IN  IF startsWith(digits, <<"+">>) THEN digits ELSE <<"+">> \o digits

normalizePhoneNumber(phoneNumber) ==
    LET d == digitsOnly(phoneNumber)
        normalizedDigits ==
            IF startsWith(d, <<"5", "2", "1">>) /\ Len(d) = 13
            THEN SubSeq(d, 1, 2) \o SubSeq(d, 4, Len(d))
            ELSE d
    IN  IF startsWith(normalizedDigits, <<"+">>)
        THEN normalizedDigits
        ELSE <<"+">> \o normalizedDigits

\* the normalizePhoneNumber of the earlier revision of utils/phone.ts
normalizePhoneNumberEarlier(phoneNumber) ==
    IF startsWith(phoneNumber, <<"5", "2", "1">>)
    THEN <<"5", "2">> \o SubSeq(phoneNumber, 4, Len(phoneNumber))
    ELSE phoneNumber

\* SHA-256 of a secret: injective, and never equal to the secret itself
hashToken(secret) == <<"sha256", secret>>

---------------------------------------------------------------------------
(* Token codec: btoa(JSON.stringify(payload)) and its inverse *)

encodePayload(p) == <<"base64", p>>

Garbage == <<"not-base64">>

\* JSON.parse(atob(x)): the object, or a throw (modelled as FALSE in ok)
parseEncoded(x) ==
    IF Len(x) = 2 /\ x[1] = "base64"
    THEN [ok |-> TRUE, v |-> x[2]]
    ELSE [ok |-> FALSE, v |-> <<>>]

NoPayload == [ok |-> FALSE]

\* variant: a token is still decoded in the second of its expiry
decodeTokenPayload_ExpiresAfter(encodedToken, t) ==
    LET parsed == parseEncoded(encodedToken)
    IN  IF ~parsed.ok THEN NoPayload
        ELSE LET d == parsed.v
             IN  IF \/ d.token = Empty
                    \/ d.phoneNumber = <<>>
                    \/ d.timestamp = Empty
                    \/ d.expiresAt = Empty
                 THEN NoPayload
                 ELSE IF d.expiresAt < t THEN NoPayload
                 ELSE [ok |-> TRUE, token |-> d.token, isNewUser |-> d.isNewUser,
                       phoneNumber |-> d.phoneNumber, timestamp |-> d.timestamp,
                       expiresAt |-> d.expiresAt, sessionId |-> d.sessionId]

decodeTokenPayload(encodedToken, t) ==
    LET parsed == parseEncoded(encodedToken)
    IN  IF ~parsed.ok THEN NoPayload
        ELSE LET d == parsed.v
             IN  IF \/ d.token = Empty
                    \/ d.phoneNumber = <<>>
                    \/ d.timestamp = Empty
                    \/ d.expiresAt = Empty
                 THEN NoPayload
                 ELSE IF d.expiresAt <= t THEN NoPayload
                 ELSE [ok |-> TRUE, token |-> d.token, isNewUser |-> d.isNewUser,
                       phoneNumber |-> d.phoneNumber, timestamp |-> d.timestamp,
                       expiresAt |-> d.expiresAt, sessionId |-> d.sessionId]

---------------------------------------------------------------------------
(* D1 queries *)

\* SELECT * FROM users WHERE phone_number = ? (.first(), or null)
findUserByPhone(phoneNumber) == {u \in users : u.phone_number = phoneNumber}

\* SELECT * FROM users WHERE id = ?
findUserById(id) == {u \in users : u.id = id}

\* variant: the SELECT of validateAndConsumeToken without "used_at IS NULL"
selectUnusedToken_IgnoresUsed(tokenHash, phoneNumber, t) ==
    {r \in vtokens : /\ r.token_hash = tokenHash
                     /\ r.phone_number = phoneNumber
                     /\ r.expires_at > t}

\* SELECT * FROM verification_tokens WHERE token_hash = ? AND phone_number = ?
\*   AND expires_at > ? AND used_at IS NULL
selectUnusedToken(tokenHash, phoneNumber, t) ==
    {r \in vtokens : /\ r.token_hash = tokenHash
                     /\ r.phone_number = phoneNumber
                     /\ r.expires_at > t
                     /\ r.used_at = NoTime}

\* SELECT * FROM verification_tokens WHERE token_hash = ? AND phone_number = ?
\*   AND expires_at > ?
selectToken(tokenHash, phoneNumber, t) ==
    {r \in vtokens : /\ r.token_hash = tokenHash
                     /\ r.phone_number = phoneNumber
                     /\ r.expires_at > t}

\* variant: the SELECT of validateRefreshToken without "user_id = ?"
validateRefreshToken_AnyUser(plainToken, userId, t) ==
    {r \in rtokens : /\ r.token_hash = hashToken(plainToken)
                     /\ r.expires_at > t
                     /\ r.revoked_at = NoTime}

\* variant: the SELECT of validateRefreshToken without "expires_at > ?"
validateRefreshToken_IgnoresExpiry(plainToken, userId, t) ==
    {r \in rtokens : /\ r.token_hash = hashToken(plainToken)
                     /\ r.user_id = userId
                     /\ r.revoked_at = NoTime}

\* variant: the SELECT of validateRefreshToken without "revoked_at IS NULL"
validateRefreshToken_IgnoresRevoked(plainToken, userId, t) ==
    {r \in rtokens : /\ r.token_hash = hashToken(plainToken)
                     /\ r.user_id = userId
                     /\ r.expires_at > t}

\* SELECT * FROM refresh_tokens WHERE token_hash = ? AND user_id = ?
\*   AND expires_at > ? AND revoked_at IS NULL
validateRefreshToken(plainToken, userId, t) ==
    {r \in rtokens : /\ r.token_hash = hashToken(plainToken)
                     /\ r.user_id = userId
                     /\ r.expires_at > t
                     /\ r.revoked_at = NoTime}

\* variant: the UPDATE of validateAndConsumeToken matches no row
markTokenUsed_NoRow(rows, id, t) == rows

\* variant: the UPDATE of validateAndConsumeToken reaches every row of the
\* phone number the token belongs to
markTokenUsed_WholePhone(rows, id, t) ==
    {IF \E x \in rows : x.id = id /\ x.phone_number = r.phone_number
     THEN [r EXCEPT !.used_at = t] ELSE r : r \in rows}

\* UPDATE verification_tokens SET used_at = ? WHERE id = ?
markTokenUsed(rows, id, t) ==
    {IF r.id = id THEN [r EXCEPT !.used_at = t] ELSE r : r \in rows}

\* variant: the UPDATE of revokeRefreshToken reaches every row of the user
\* the credential belongs to
revokeRefreshToken_WholeUser(rows, tokenId, t) ==
    {IF \E x \in rows : x.id = tokenId /\ x.user_id = r.user_id
     THEN [r EXCEPT !.revoked_at = t] ELSE r : r \in rows}

\* UPDATE refresh_tokens SET revoked_at = ? WHERE id = ?
revokeRefreshToken(rows, tokenId, t) ==
    {IF r.id = tokenId THEN [r EXCEPT !.revoked_at = t] ELSE r : r \in rows}

\* variant: the UPDATE of revokeAllUserRefreshTokens keyed by id, not user_id
revokeAllUserRefreshTokens_ById(rows, userId, t) ==
    {IF r.id = userId /\ r.revoked_at = NoTime
     THEN [r EXCEPT !.revoked_at = t] ELSE r : r \in rows}

\* UPDATE refresh_tokens SET revoked_at = ? WHERE user_id = ? AND revoked_at IS NULL
revokeAllUserRefreshTokens(rows, userId, t) ==
    {IF r.user_id = userId /\ r.revoked_at = NoTime
     THEN [r EXCEPT !.revoked_at = t] ELSE r : r \in rows}

\* variant: the DELETE of cleanupExpiredTokens compares created_at
deleteExpired_ByCreation(rows, t) == {r \in rows : ~(r.created_at < t)}

\* DELETE FROM verification_tokens / refresh_tokens WHERE expires_at < ?:
\* the rows that stay
deleteExpired(rows, t) == {r \in rows : ~(r.expires_at < t)}

\* UPDATE users SET last_login = ? WHERE id = ?
updateLastLogin(rows, userId, t) ==
    {IF u.id = userId THEN [u EXCEPT !.last_login = t] ELSE u : u \in rows}

\* variant: createUser stores the digits of the phone number without the "+"
newUserRow_DigitsOnly(userId, phoneNumber, t) ==
    [id |-> userId, phone_number |-> digitsOnly(phoneNumber), created_at |-> t,
     last_login |-> t]

\* the row createUser inserts
newUserRow(userId, phoneNumber, t) ==
    [id |-> userId, phone_number |-> phoneNumber, created_at |-> t, last_login |-> t]

\* variant: createRefreshToken gives the row the lifetime of an access token
newRefreshRow_AccessLifetime(tokenId, userId, plainToken, t) ==
    [id |-> tokenId, user_id |-> userId, token_hash |-> hashToken(plainToken),
     expires_at |-> t + ACCESS_TTL, created_at |-> t, revoked_at |-> NoTime]

\* the row createRefreshToken inserts
newRefreshRow(tokenId, userId, plainToken, t) ==
    [id |-> tokenId, user_id |-> userId, token_hash |-> hashToken(plainToken),
     expires_at |-> t + REFRESH_TTL, created_at |-> t, revoked_at |-> NoTime]

\* the payload createVerificationToken builds
newTokenPayload(tokenId, plainToken, phoneNumber, isNewUser, t) ==
    [token |-> plainToken, isNewUser |-> isNewUser, phoneNumber |-> phoneNumber,
     timestamp |-> t, expiresAt |-> t + VERIFICATION_TTL, sessionId |-> tokenId]

\* variant: createVerificationToken binds the plain token, unhashed
newTokenRow_Plaintext(tokenId, plainToken, phoneNumber, t) ==
    [id |-> tokenId, token_hash |-> <<"plain", plainToken>>, phone_number |-> phoneNumber,
     expires_at |-> t + VERIFICATION_TTL, used_at |-> NoTime, created_at |-> t]

\* the row createVerificationToken inserts
newTokenRow(tokenId, plainToken, phoneNumber, t) ==
    [id |-> tokenId, token_hash |-> hashToken(plainToken), phone_number |-> phoneNumber,
     expires_at |-> t + VERIFICATION_TTL, used_at |-> NoTime, created_at |-> t]

\* the key createJWT and verifyJWT encode: CONFIG.JWT.SECRET
JWT_SECRET == "CONFIG.JWT.SECRET"

\* HS256 over the claims: equal only for equal claims and equal keys
signJWT(userId, type, iat, exp, secret) == <<"HS256", secret, userId, type, iat, exp>>

\* createJWT(payload, expiresIn): the claims of the token and its signature
createJWT(userId, type, expiresIn, t) ==
    [userId |-> userId, type |-> type, iat |-> t, exp |-> t + expiresIn,
     sig |-> signJWT(userId, type, t, t + expiresIn, JWT_SECRET)]

\* CONFIG.JWT.SECRET as the module declares it, before initializeConfig(env)
DEFAULT_JWT_SECRET == ""

\* CONFIG.JWT.SECRET in the isolate a Durable Object runs in: CONFIG is a
\* module global that only the middleware of the request worker populates,
\* so it holds the environment's secret when the isolate has served a
\* request before and the declared value when it has not
IsolateSecrets == {DEFAULT_JWT_SECRET, JWT_SECRET}

\* createJWT in an isolate whose CONFIG.JWT.SECRET is secret
createJWTIn(secret, userId, type, expiresIn, t) ==
    [userId |-> userId, type |-> type, iat |-> t, exp |-> t + expiresIn,
     sig |-> signJWT(userId, type, t, t + expiresIn, secret)]

NoClaims == [ok |-> FALSE]

\* variant: a token is still verified in the second of its expiry
verifyJWT_ExpiresAfter(token, t) ==
    IF /\ token.sig = signJWT(token.userId, token.type, token.iat, token.exp, JWT_SECRET)
       /\ token.exp >= t
    THEN [ok |-> TRUE, userId |-> token.userId, type |-> token.type]
    ELSE NoClaims

\* verifyJWT(token): jwtVerify checks the signature and the exp claim; any
\* failure is caught and gives null
verifyJWT(token, t) ==
    IF /\ token.sig = signJWT(token.userId, token.type, token.iat, token.exp, JWT_SECRET)
       /\ token.exp > t
    THEN [ok |-> TRUE, userId |-> token.userId, type |-> token.type]
    ELSE NoClaims

---------------------------------------------------------------------------
(* Durable Object addressing *)

\* namespace.idFromName(name): the same instance for the same name
idFromName(name) == <<"name", name>>

InvalidId == <<"TypeError">>

\* namespace.idFromString(s): s must be the 64 hex digit form of an id; the
\* ids generateRandomId mints have RandomIdLength characters
idFromString(s) ==
    IF RandomIdLength = DurableObjectIdLength THEN <<"hex", s>> ELSE InvalidId

---------------------------------------------------------------------------
(* Invocations *)

clock == <<now, ticks>>
db == <<users, vtokens, rtokens>>
relay == <<sessions, ws>>
hist == <<spent, rotated, presented, loggedOut, peeked>>

NoResult == [tag |-> "none"]
Null == [tag |-> "null"]
Threw == [tag |-> "threw"]

NoJWT == [userId |-> Empty, type |-> "", iat |-> NoTime, exp |-> NoTime, sig |-> <<>>]

\* the { userId } validateAccessToken returns
AuthInfo(userId) == [tag |-> "user", userId |-> userId]

Creds(accessToken, refreshToken, userId) ==
    [tag |-> "creds", accessToken |-> accessToken, refreshToken |-> refreshToken,
     userId |-> userId]

IdleCall ==
    [kind |-> "idle", pc |-> "idle", mid |-> Empty, sender |-> <<>>,
     payload |-> Garbage, refreshToken |-> Empty, userId |-> Empty,
     jwt |-> NoJWT, t |-> NoTime, rec |-> Empty, isNewUser |-> FALSE,
     result |-> NoResult, response |-> NoResult,
     late |-> FALSE, first |-> FALSE, dup |-> FALSE]

Init ==
    /\ now = 1
    /\ ticks = 0
    /\ nextId = 1
    /\ users = {}
    /\ vtokens = {}
    /\ rtokens = {}
    /\ attempts = {}
    /\ calls = [p \in Procs |-> IdleCall]
    /\ processed = {}
    /\ sessions = <<>>
    /\ ws = [c \in Chans |-> [state |-> "none", sid |-> Empty, inbox |-> <<>>]]
    /\ spent = {}
    /\ rotated = {}
    /\ presented = {}
    /\ loggedOut = {}
    /\ peeked = {}

\* time passes
Tick(d) ==
    /\ ticks < MaxTicks
    /\ now' = now + d
    /\ ticks' = ticks + 1
    /\ UNCHANGED <<nextId, db, attempts, calls, processed, relay, hist>>

\* variant: the failure result still carries the id of the attempt
initiateLoginResult_LeaksSession(sendOk, tokenId) ==
    IF sendOk
    THEN [success |-> TRUE, sessionId |-> tokenId]
    ELSE [success |-> FALSE, sessionId |-> tokenId,
          error |-> "Failed to send WhatsApp message"]

\* what initiateLogin returns
initiateLoginResult(sendOk, tokenId) ==
    IF sendOk
    THEN [success |-> TRUE, sessionId |-> tokenId]
    ELSE [success |-> FALSE, error |-> "Failed to send WhatsApp message"]

\* routes/auth.ts handleInitiate: the JSON answer of POST /api/auth/initiate
handleInitiate(result) ==
    IF result.success
    THEN [status |-> "success", statusCode |-> 200,
          data |-> [sessionId |-> result.sessionId]]
    ELSE [status |-> "error", statusCode |-> 500,
          error |-> [code |-> "MESSAGE_SEND_FAILED", details |-> result.error]]

\* variant: initiateLogin creates the user row of a new phone number at once
InitiateLogin_CreatesUser(phoneNumber, sendOk) ==
    /\ nextId <= MaxIds
    /\ Cardinality(vtokens) < MaxTokens
    /\ LET formattedPhone == formatPhoneNumber(phoneNumber)
           isNewUser == findUserByPhone(formattedPhone) = {}
           tokenId == nextId
           plainToken == nextId
           encodedToken == encodePayload(
               newTokenPayload(tokenId, plainToken, formattedPhone, isNewUser, now))
       IN  /\ vtokens' = vtokens \cup {newTokenRow(tokenId, plainToken, formattedPhone, now)}
           /\ attempts' = attempts \cup
                {[phone |-> formattedPhone, payload |-> encodedToken, success |-> sendOk,
                  sessionId |-> IF sendOk THEN tokenId ELSE Empty,
                  result |-> initiateLoginResult(sendOk, tokenId),
                  response |-> handleInitiate(initiateLoginResult(sendOk, tokenId))]}
    /\ users' = IF findUserByPhone(formatPhoneNumber(phoneNumber)) = {}
                THEN users \cup {newUserRow(nextId, formatPhoneNumber(phoneNumber), now)}
                ELSE users
    /\ nextId' = nextId + 1
    /\ UNCHANGED <<clock, rtokens, calls, processed, relay, hist>>

\* AuthService.initiateLogin (with VerificationService.createVerificationToken);
\* sendOk is the outcome of WhatsAppService.sendInteractiveButtonMessage
InitiateLogin(phoneNumber, sendOk) ==
    /\ nextId <= MaxIds
    /\ Cardinality(vtokens) < MaxTokens
    /\ LET formattedPhone == formatPhoneNumber(phoneNumber)
           isNewUser == findUserByPhone(formattedPhone) = {}
           tokenId == nextId
           plainToken == nextId
           encodedToken == encodePayload(
               newTokenPayload(tokenId, plainToken, formattedPhone, isNewUser, now))
       IN  /\ vtokens' = vtokens \cup {newTokenRow(tokenId, plainToken, formattedPhone, now)}
           /\ attempts' = attempts \cup
                {[phone |-> formattedPhone, payload |-> encodedToken, success |-> sendOk,
                  sessionId |-> IF sendOk THEN tokenId ELSE Empty,
                  result |-> initiateLoginResult(sendOk, tokenId),
                  response |-> handleInitiate(initiateLoginResult(sendOk, tokenId))]}
    /\ nextId' = nextId + 1
    /\ UNCHANGED <<clock, users, rtokens, calls, processed, relay, hist>>

\* a request worker or Durable Object invocation starts in the first free slot
Free(p) == calls[p].pc = "idle"

Start(p) ==
    /\ Free(p)
    /\ \A q \in Procs : q < p => ~Free(q)

SetCall(p, c) == calls' = [calls EXCEPT ![p] = c]

---------------------------------------------------------------------------
(* The confirmation webhook: index POST /api/webhook -> WebhookProcessorDO *)

\* what the holder of a delivered button payload can send back: the payload
\* itself, or an edited copy of it (the payload is plain base64 JSON)
Tampered(e) ==
    LET d == parseEncoded(e).v
    IN  { e,
          encodePayload([d EXCEPT !.isNewUser = ~d.isNewUser]),
          encodePayload([d EXCEPT !.token = ForgedSecret]),
          encodePayload([d EXCEPT !.expiresAt = d.expiresAt + REFRESH_TTL]) }

Delivered == {a.payload : a \in {x \in attempts : x.success}}

PayloadInputs == {Garbage} \cup UNION {Tampered(e) : e \in Delivered}

SecretOf(e) == IF parseEncoded(e).ok THEN parseEncoded(e).v.token ELSE Empty

PhoneOf(c) == parseEncoded(c.payload).v.phoneNumber

\* validateAndConsumeToken up to its SELECT: the rows it may consume
validateAndConsumeLookup(encodedToken, phoneNumber, t) ==
    LET payload == decodeTokenPayload(encodedToken, t)
    IN  IF ~payload.ok THEN {}
        ELSE IF payload.phoneNumber # phoneNumber THEN {}
        ELSE selectUnusedToken(hashToken(payload.token), phoneNumber, t)

\* AuthService.verifyLogin: the phone number the token is verified against
verifyLoginPhone(sender, payload) == payload.phoneNumber

\* WebhookProcessorDO.processWebhookPayload for a button_reply message from
\* `sender` carrying `payload`: the 'processed' check, verifyLogin ->
\* getPhoneNumberFromToken, then verifyWebhookToken -> validateAndConsumeToken
\* up to and including its SELECT.  When the token is rejected verifyLogin
\* returns null, the failure text message is sent and 'processed' is stored.
WebhookVerify(p, mid, sender, encodedToken) ==
    LET payload == decodeTokenPayload(encodedToken, now)
        phoneNumber == verifyLoginPhone(normalizePhoneNumber(sender), payload)
        rows == validateAndConsumeLookup(encodedToken, phoneNumber, now)
        c == [IdleCall EXCEPT !.kind = "webhook", !.mid = mid, !.sender = sender,
                              !.payload = encodedToken, !.t = now,
                              !.late = SecretOf(encodedToken) \in spent]
    IN  /\ Start(p)
        /\ IF mid \in processed
           THEN /\ SetCall(p, [c EXCEPT !.pc = "done", !.result = [tag |-> "already"]])
                /\ UNCHANGED processed
           ELSE IF ~payload.ok \/ rows = {}
           THEN /\ SetCall(p, [c EXCEPT !.pc = "done", !.result = Null])
                /\ processed' = processed \cup {mid}
           ELSE /\ SetCall(p, [c EXCEPT !.pc = "consume",
                                        !.rec = (CHOOSE r \in rows : TRUE).id,
                                        !.isNewUser = payload.isNewUser])
                /\ UNCHANGED processed
        /\ UNCHANGED <<clock, nextId, db, attempts, relay, hist>>

\* validateAndConsumeToken: the UPDATE that marks the token used
WebhookConsume(p) ==
    LET c == calls[p]
    IN  /\ c.kind = "webhook" /\ c.pc = "consume"
        /\ vtokens' = markTokenUsed(vtokens, c.rec, c.t)
        /\ SetCall(p, [c EXCEPT !.pc = IF c.isNewUser THEN "create" ELSE "find"])
        /\ UNCHANGED <<clock, nextId, users, rtokens, attempts, processed,
                       relay, hist>>

\* verifyWebhookToken, existing-user branch: findUserByPhone, and
\* updateLastLogin when the user is found
WebhookFind(p) ==
    LET c == calls[p]
        found == findUserByPhone(PhoneOf(c))
        user == CHOOSE u \in found : TRUE
    IN  /\ c.kind = "webhook" /\ c.pc = "find"
        /\ IF found = {}
           THEN /\ SetCall(p, [c EXCEPT !.pc = "create"])
                /\ UNCHANGED users
           ELSE /\ SetCall(p, [c EXCEPT !.pc = "issue", !.userId = user.id])
                /\ users' = updateLastLogin(users, user.id, now)
        /\ UNCHANGED <<clock, nextId, vtokens, rtokens, attempts, processed,
                       relay, hist>>

\* verifyWebhookToken: userService.createUser(phoneNumber); the INSERT fails
\* on the UNIQUE phone_number column when the phone already has a user row,
\* and the exception leaves processWebhookPayload before 'processed' is set
WebhookCreate(p) ==
    LET c == calls[p]
    IN  /\ c.kind = "webhook" /\ c.pc = "create"
        /\ IF findUserByPhone(PhoneOf(c)) # {}
           THEN /\ SetCall(p, [c EXCEPT !.pc = "done", !.result = Threw])
                /\ UNCHANGED <<users, nextId>>
           ELSE /\ nextId <= MaxIds
                /\ users' = users \cup {newUserRow(nextId, PhoneOf(c), now)}
                /\ nextId' = nextId + 1
                /\ SetCall(p, [c EXCEPT !.pc = "issue", !.userId = nextId])
        /\ UNCHANGED <<clock, vtokens, rtokens, attempts, processed, relay, hist>>

\* verifyWebhookToken: createJWT and createRefreshToken; verifyLogin returns
WebhookIssue(p) ==
    LET c == calls[p]
    IN  /\ c.kind = "webhook" /\ c.pc = "issue"
        /\ nextId <= MaxIds
        /\ rtokens' = rtokens \cup {newRefreshRow(nextId, c.userId, nextId, now)}
        /\ nextId' = nextId + 1
        /\ SetCall(p, [c EXCEPT !.pc = "peek",
                !.result = Creds(createJWT(c.userId, "access", ACCESS_TTL, now),
                                 nextId, c.userId),
                !.dup = SecretOf(c.payload) \in spent])
        /\ spent' = spent \cup {SecretOf(c.payload)}
        /\ UNCHANGED <<clock, users, vtokens, attempts, processed, relay,
                       rotated, presented, loggedOut, peeked>>

\* verifyWebhookToken: createJWT and createRefreshToken in the isolate of the
\* WebhookProcessorDO, whose CONFIG.JWT.SECRET is secret; signs tells whether
\* SignJWT.sign accepts an empty key or throws (the exception then leaves
\* processWebhookPayload)
WebhookIssueInIsolate(p, secret, signs) ==
    LET c == calls[p]
    IN  /\ c.kind = "webhook" /\ c.pc = "issue"
        /\ secret # DEFAULT_JWT_SECRET => signs
        /\ IF signs
           THEN /\ nextId <= MaxIds
                /\ rtokens' = rtokens \cup {newRefreshRow(nextId, c.userId, nextId, now)}
                /\ nextId' = nextId + 1
                /\ SetCall(p, [c EXCEPT !.pc = "peek",
                        !.result = Creds(createJWTIn(secret, c.userId, "access",
                                                     ACCESS_TTL, now),
                                         nextId, c.userId),
                        !.dup = SecretOf(c.payload) \in spent])
                /\ spent' = spent \cup {SecretOf(c.payload)}
           ELSE /\ SetCall(p, [c EXCEPT !.pc = "done", !.result = Threw])
                /\ UNCHANGED <<rtokens, nextId, spent>>
        /\ UNCHANGED <<clock, users, vtokens, attempts, processed, relay,
                       rotated, presented, loggedOut, peeked>>

\* variant: validateTokenOnly returns the sessionId the payload carries
validateTokenOnly_PayloadSession(encodedToken, phoneNumber, t) ==
    LET payload == decodeTokenPayload(encodedToken, t)
    IN  IF ~payload.ok THEN [isValid |-> FALSE]
        ELSE IF payload.phoneNumber # phoneNumber THEN [isValid |-> FALSE]
        ELSE LET rows == selectToken(hashToken(payload.token), phoneNumber, t)
             IN  [isValid |-> rows # {}, isNewUser |-> payload.isNewUser,
                  sessionId |-> IF rows = {} THEN Empty ELSE payload.sessionId]

\* VerificationService.validateTokenOnly
validateTokenOnly(encodedToken, phoneNumber, t) ==
    LET payload == decodeTokenPayload(encodedToken, t)
    IN  IF ~payload.ok THEN [isValid |-> FALSE]
        ELSE IF payload.phoneNumber # phoneNumber THEN [isValid |-> FALSE]
        ELSE LET rows == selectToken(hashToken(payload.token), phoneNumber, t)
             IN  [isValid |-> rows # {}, isNewUser |-> payload.isNewUser,
                  sessionId |-> IF rows = {} THEN Empty
                                ELSE (CHOOSE r \in rows : TRUE).id]

\* AuthService.verifyLoginTokenOnly: getPhoneNumberFromToken, validateTokenOnly;
\* the session id to deliver to, or Empty
verifyLoginTokenOnly(token, t) ==
    LET payload == decodeTokenPayload(token, t)
    IN  IF ~payload.ok THEN Empty
        ELSE LET tokenValidation == validateTokenOnly(token, payload.phoneNumber, t)
             IN  IF ~tokenValidation.isValid THEN Empty ELSE tokenValidation.sessionId

Sessions(inst) == IF inst \in DOMAIN sessions THEN sessions[inst] ELSE <<>>

Holds(inst, c) == \E i \in 1..Len(Sessions(inst)) : Sessions(inst)[i] = c

IsOpen(c) == ws[c].state = "open"

AuthSuccess(r) ==
    [event |-> "auth_success", authToken |-> r.accessToken,
     refreshToken |-> r.refreshToken, userId |-> r.userId]

\* variant: only the socket that attached first is sent the message
sendTokensToClient_FirstOnly(inst, message) ==
    /\ ws' = [c \in Chans |->
                IF Holds(inst, c) /\ IsOpen(c) /\ Sessions(inst)[1] = c
                THEN [ws[c] EXCEPT !.inbox = Append(@, message)]
                ELSE ws[c]]
    /\ sessions' = [i \in DOMAIN sessions \cup {inst} |->
                      IF i = inst THEN SelectSeq(Sessions(inst), IsOpen) ELSE sessions[i]]

\* variant: removing a closed socket while iterating makes the loop pass over
\* the socket that follows it
sendTokensToClient_SkipsAfterPrune(inst, message) ==
    /\ ws' = [c \in Chans |->
                IF \E i \in 1..Len(Sessions(inst)) :
                      /\ Sessions(inst)[i] = c
                      /\ IsOpen(c)
                      /\ (i = 1 \/ IsOpen(Sessions(inst)[i - 1]))
                THEN [ws[c] EXCEPT !.inbox = Append(@, message)]
                ELSE ws[c]]
    /\ sessions' = [i \in DOMAIN sessions \cup {inst} |->
                      IF i = inst THEN SelectSeq(Sessions(inst), IsOpen) ELSE sessions[i]]

\* AuthSessionDO.sendTokensToClient on instance inst: send to every open
\* socket, drop the others from this.sessions
sendTokensToClient(inst, message) ==
    /\ ws' = [c \in Chans |->
                IF Holds(inst, c) /\ IsOpen(c)
                THEN [ws[c] EXCEPT !.inbox = Append(@, message)]
                ELSE ws[c]]
    /\ sessions' = [i \in DOMAIN sessions \cup {inst} |->
                      IF i = inst THEN SelectSeq(Sessions(inst), IsOpen) ELSE sessions[i]]

\* handleAuthButtonPayload after a successful verifyLogin: verifyLoginTokenOnly,
\* then POST /send-tokens to the AuthSessionDO named by the session id
WebhookDeliver(p) ==
    LET c == calls[p]
        sessionId == verifyLoginTokenOnly(c.payload, now)
    IN  /\ c.kind = "webhook" /\ c.pc = "peek"
        /\ IF sessionId = Empty
           THEN UNCHANGED <<ws, sessions>>
           ELSE sendTokensToClient(idFromName(sessionId), AuthSuccess(c.result))
        /\ SetCall(p, [c EXCEPT !.pc = "mark"])
        /\ UNCHANGED <<clock, nextId, db, attempts, processed, hist>>

\* handleAuthButtonPayload with the AuthService whose verifyLoginTokenOnly
\* returns {phoneNumber, isNewUser} and no sessionId: nothing is posted
WebhookNoDeliver(p) ==
    LET c == calls[p]
    IN  /\ c.kind = "webhook" /\ c.pc = "peek"
        /\ SetCall(p, [c EXCEPT !.pc = "mark"])
        /\ UNCHANGED <<clock, nextId, db, attempts, processed, relay, hist>>

\* variant: validateTokenOnly marks the row it finds used
tokensAfterValidateTokenOnly_Consumes(rows, encodedToken, phoneNumber, t) ==
    LET tokenValidation == validateTokenOnly(encodedToken, phoneNumber, t)
    IN  IF tokenValidation.isValid
        THEN markTokenUsed(rows, tokenValidation.sessionId, t)
        ELSE rows

\* verification_tokens after validateTokenOnly: its one statement is a SELECT
tokensAfterValidateTokenOnly(rows, encodedToken, phoneNumber, t) == rows

\* AuthService.verifyLoginTokenOnly(token) called on its own
VerifyLoginTokenOnly(p, token) ==
    LET payload == decodeTokenPayload(token, now)
    IN  /\ Start(p)
        /\ SetCall(p, [IdleCall EXCEPT !.kind = "peek", !.pc = "done",
                        !.payload = token, !.t = now,
                        !.result = [tag |-> "peek",
                                    sessionId |-> verifyLoginTokenOnly(token, now)]])
        /\ vtokens' = IF ~payload.ok THEN vtokens
                      ELSE tokensAfterValidateTokenOnly(vtokens, token,
                                                        payload.phoneNumber, now)
        /\ peeked' = peeked \cup {SecretOf(token)}
        /\ UNCHANGED <<clock, nextId, users, rtokens, attempts, processed, relay,
                       spent, rotated, presented, loggedOut>>

\* processWebhookPayload: storage.put('processed', true)
WebhookMark(p) ==
    LET c == calls[p]
    IN  /\ c.kind = "webhook" /\ c.pc = "mark"
        /\ processed' = processed \cup {c.mid}
        /\ SetCall(p, [c EXCEPT !.pc = "done"])
        /\ UNCHANGED <<clock, nextId, db, attempts, relay, hist>>

---------------------------------------------------------------------------
(* POST /api/auth/refresh and POST /api/auth/logout *)

\* what a client can present: a refresh secret it was given, or a made-up one
RefreshInputs == {r.token_hash[2] : r \in rtokens} \cup {ForgedSecret}

UserIdInputs == {u.id : u \in users}

OwnRows(plainToken, userId) ==
    {r \in rtokens : r.token_hash = hashToken(plainToken) /\ r.user_id = userId}

\* routes/auth.ts handleRefreshToken: the JSON answer of POST /api/auth/refresh
\* for what refreshAccessToken returned
handleRefreshToken(result) ==
    IF result # Null
    THEN [status |-> "success", statusCode |-> 200,
          data |-> [accessToken |-> result.accessToken,
                    refreshToken |-> result.refreshToken]]
    ELSE [status |-> "error", statusCode |-> 401,
          error |-> [code |-> "INVALID_REFRESH_TOKEN",
                     message |-> "Invalid or expired refresh token"]]

\* AuthService.refreshAccessToken: validateRefreshToken
RefreshValidate(p, refreshToken, userId) ==
    LET rows == validateRefreshToken(refreshToken, userId, now)
        c == [IdleCall EXCEPT !.kind = "refresh", !.refreshToken = refreshToken,
                              !.userId = userId, !.t = now,
                              !.late = refreshToken \in rotated,
                              !.first = /\ refreshToken \notin presented
                                        /\ \E r \in OwnRows(refreshToken, userId) :
                                              /\ r.expires_at > now
                                              /\ r.id \notin loggedOut]
    IN  /\ Start(p)
        /\ IF rows = {}
           THEN SetCall(p, [c EXCEPT !.pc = "done", !.result = Null,
                                     !.response = handleRefreshToken(Null)])
           ELSE SetCall(p, [c EXCEPT !.pc = "revoke",
                                     !.rec = (CHOOSE r \in rows : TRUE).id])
        /\ presented' = IF OwnRows(refreshToken, userId) # {}
                        THEN presented \cup {refreshToken} ELSE presented
        /\ UNCHANGED <<clock, nextId, db, attempts, processed, relay,
                       spent, rotated, loggedOut, peeked>>

\* refreshAccessToken: createJWT, then revokeRefreshToken(tokenRecord.id)
RefreshRevoke(p) ==
    LET c == calls[p]
    IN  /\ c.kind = "refresh" /\ c.pc = "revoke"
        /\ rtokens' = revokeRefreshToken(rtokens, c.rec, now)
        /\ SetCall(p, [c EXCEPT !.pc = "create",
                !.result = Creds(createJWT(c.userId, "access", ACCESS_TTL, now),
                                 Empty, c.userId)])
        /\ UNCHANGED <<clock, nextId, users, vtokens, attempts, processed,
                       relay, hist>>

\* refreshAccessToken: createRefreshToken(userId), and the return
RefreshCreate(p) ==
    LET c == calls[p]
    IN  /\ c.kind = "refresh" /\ c.pc = "create"
        /\ nextId <= MaxIds
        /\ rtokens' = rtokens \cup {newRefreshRow(nextId, c.userId, nextId, now)}
        /\ nextId' = nextId + 1
        /\ SetCall(p, [c EXCEPT !.pc = "done", !.result.refreshToken = nextId,
                !.response = handleRefreshToken([c.result EXCEPT !.refreshToken = nextId]),
                !.dup = c.refreshToken \in rotated])
        /\ rotated' = rotated \cup {c.refreshToken}
        /\ UNCHANGED <<clock, users, vtokens, attempts, processed, relay,
                       spent, presented, loggedOut, peeked>>

\* AuthService.logout(userId, refreshToken): validateRefreshToken
LogoutValidate(p, userId, refreshToken) ==
    LET rows == validateRefreshToken(refreshToken, userId, now)
        c == [IdleCall EXCEPT !.kind = "logout", !.refreshToken = refreshToken,
                              !.userId = userId, !.t = now]
    IN  /\ Start(p)
        /\ IF rows = {}
           THEN SetCall(p, [c EXCEPT !.pc = "done", !.result = [tag |-> "true"]])
           ELSE SetCall(p, [c EXCEPT !.pc = "lo_revoke",
                                     !.rec = (CHOOSE r \in rows : TRUE).id])
        /\ UNCHANGED <<clock, nextId, db, attempts, processed, relay, hist>>

\* logout(userId, refreshToken): revokeRefreshToken(tokenRecord.id)
LogoutRevoke(p) ==
    LET c == calls[p]
    IN  /\ c.kind = "logout" /\ c.pc = "lo_revoke"
        /\ rtokens' = revokeRefreshToken(rtokens, c.rec, now)
        /\ loggedOut' = loggedOut \cup {c.rec}
        /\ SetCall(p, [c EXCEPT !.pc = "done", !.result = [tag |-> "true"]])
        /\ UNCHANGED <<clock, nextId, users, vtokens, attempts, processed,
                       relay, spent, rotated, presented, peeked>>

\* logout(userId) with no refresh token: revokeAllUserRefreshTokens(userId)
LogoutAll(p, userId) ==
    /\ Start(p)
    /\ rtokens' = revokeAllUserRefreshTokens(rtokens, userId, now)
    /\ loggedOut' = loggedOut \cup {0 - userId} \cup
            {r.id : r \in {x \in rtokens : x.user_id = userId /\ x.revoked_at = NoTime}}
    /\ SetCall(p, [IdleCall EXCEPT !.kind = "logout", !.pc = "done", !.userId = userId,
                                   !.t = now, !.result = [tag |-> "true"]])
    /\ UNCHANGED <<clock, nextId, users, vtokens, attempts, processed, relay,
                   spent, rotated, presented, peeked>>

---------------------------------------------------------------------------
(* VerificationService.cleanupExpiredTokens *)

\* cleanupExpiredTokens: Date.now() and the DELETE on verification_tokens
CleanupVerification(p) ==
    /\ Start(p)
    /\ vtokens' = deleteExpired(vtokens, now)
    /\ SetCall(p, [IdleCall EXCEPT !.kind = "cleanup", !.pc = "cl_refresh", !.t = now])
    /\ UNCHANGED <<clock, nextId, users, rtokens, attempts, processed, relay, hist>>

\* cleanupExpiredTokens: the DELETE on refresh_tokens, with the same time
CleanupRefresh(p) ==
    LET c == calls[p]
    IN  /\ c.kind = "cleanup" /\ c.pc = "cl_refresh"
        /\ rtokens' = deleteExpired(rtokens, c.t)
        /\ SetCall(p, [c EXCEPT !.pc = "done"])
        /\ UNCHANGED <<clock, nextId, users, vtokens, attempts, processed, relay, hist>>

---------------------------------------------------------------------------
(* authMiddleware -> AuthService.validateAccessToken *)

\* the access tokens created together with the stored refresh credentials
IssuedAccess ==
    {createJWT(r.user_id, "access", ACCESS_TTL, r.created_at) : r \in rtokens}

\* what may stand behind "Bearer ": an issued token, or a copy with a claim
\* edited (the signature then no longer fits), or tokens over other claims
\* or under another key
EditedAccess(j) ==
    { j,
      [j EXCEPT !.exp = j.exp + REFRESH_TTL],
      [j EXCEPT !.userId = j.userId + 1],
      createJWT(j.userId, "refresh", ACCESS_TTL, j.iat),
      createJWT(Empty, "access", ACCESS_TTL, j.iat),
      createJWT(ForgedSecret, "access", ACCESS_TTL, j.iat),
      [j EXCEPT !.sig = signJWT(j.userId, j.type, j.iat, j.exp, "")] }

AccessInputs == UNION {EditedAccess(j) : j \in IssuedAccess}

\* variant: validateAccessToken without the findUserById cross-check
validateAccessToken_NoUserCheck(token, t) ==
    LET payload == verifyJWT(token, t)
    IN  IF ~payload.ok \/ payload.userId = Empty \/ payload.type # "access"
        THEN Null
        ELSE AuthInfo(payload.userId)

\* AuthService.validateAccessToken
validateAccessToken(token, t) ==
    LET payload == verifyJWT(token, t)
    IN  IF ~payload.ok \/ payload.userId = Empty \/ payload.type # "access"
        THEN Null
        ELSE IF findUserById(payload.userId) = {} THEN Null
        ELSE AuthInfo(payload.userId)

\* a request through authMiddleware: validateAccessToken(token)
ValidateAccess(p, token) ==
    /\ Start(p)
    /\ SetCall(p, [IdleCall EXCEPT !.kind = "validate", !.pc = "done", !.jwt = token,
                                   !.t = now, !.result = validateAccessToken(token, now)])
    /\ UNCHANGED <<clock, nextId, db, attempts, processed, relay, hist>>

---------------------------------------------------------------------------
(* GET /api/auth/ws and the AuthSessionDO *)

SessionIdInputs == {a.sessionId : a \in {x \in attempts : x.success}}

\* AuthSessionDO.fetch('/websocket') on instance inst
acceptWebSocket(inst, c, sessionId) ==
    /\ ws' = [ws EXCEPT ![c] = [state |-> "open", sid |-> sessionId, inbox |-> <<>>]]
    /\ sessions' = [i \in DOMAIN sessions \cup {inst} |->
                      IF i = inst THEN Append(Sessions(inst), c) ELSE sessions[i]]

\* GET /api/auth/ws, the route that addresses the relay with idFromName
AttachWs(c, sessionId) ==
    /\ ws[c].state = "none"
    /\ acceptWebSocket(idFromName(sessionId), c, sessionId)
    /\ UNCHANGED <<clock, nextId, db, attempts, calls, processed, hist>>

\* GET /api/auth/ws, the route that addresses the relay with idFromString
AttachWsIdFromString(c, sessionId) ==
    /\ ws[c].state = "none"
    /\ IF idFromString(sessionId) = InvalidId
       THEN /\ ws' = [ws EXCEPT ![c] = [state |-> "failed", sid |-> sessionId,
                                        inbox |-> <<>>]]
            /\ UNCHANGED sessions
       ELSE acceptWebSocket(idFromString(sessionId), c, sessionId)
    /\ UNCHANGED <<clock, nextId, db, attempts, calls, processed, hist>>

\* the client closes its socket: readyState leaves OPEN
WsClose(c) ==
    /\ ws[c].state = "open"
    /\ ws' = [ws EXCEPT ![c].state = "closed"]
    /\ UNCHANGED <<clock, nextId, db, attempts, calls, processed, sessions, hist>>

\* the 'close' listener of the server socket: this.sessions.filter(s => s !== server)
WsCloseEvent(c) ==
    /\ ws[c].state = "closed"
    /\ \E inst \in DOMAIN sessions :
          /\ Holds(inst, c)
          /\ sessions' = [sessions EXCEPT ![inst] = SelectSeq(@, LAMBDA x : x # c)]
    /\ UNCHANGED <<clock, nextId, db, attempts, calls, processed, ws, hist>>

---------------------------------------------------------------------------
(* Specifications *)

WebhookSteps(P) ==
    \/ \E p \in P : WebhookConsume(p)
    \/ \E p \in P : WebhookFind(p)
    \/ \E p \in P : WebhookCreate(p)
    \/ \E p \in P : WebhookIssue(p)
    \/ \E p \in P : WebhookDeliver(p)
    \/ \E p \in P : WebhookMark(p)

\* the message id of a webhook delivery: a redelivery of a message seen
\* before, or the next unseen one
MsgIdInputs ==
    {m \in MsgIds : \A k \in 1..(m - 1) :
        k \in processed \/ \E q \in Procs : calls[q].kind = "webhook" /\ calls[q].mid = k}

\* a finished invocation is observed, then forgotten, before anything else runs
Quiet == \A p \in Procs : calls[p].pc # "done"

Recycle(p) ==
    /\ calls[p].pc = "done"
    /\ SetCall(p, IdleCall)
    /\ UNCHANGED <<clock, nextId, db, attempts, processed, relay, hist>>

Genuine == Delivered

\* one invocation at a time, with genuine, edited and forged payloads
Next ==
    \/ /\ Quiet
       /\ \/ \E d \in {1, VERIFICATION_TTL} : Tick(d)
          \/ \E ph \in RawPhones, ok \in BOOLEAN : InitiateLogin(ph, ok)
          \/ \E mid \in MsgIdInputs, sender \in SenderPhones, e \in PayloadInputs :
                WebhookVerify(1, mid, sender, e)
          \/ WebhookSteps({1})
    \/ Recycle(1)

Spec == Init /\ [][Next]_vars

\* concurrent webhooks for the genuine payloads of one phone number
NextRace ==
    \/ /\ Quiet
       /\ \/ \E d \in {1, VERIFICATION_TTL} : Tick(d)
          \/ \E ok \in BOOLEAN : InitiateLogin(<<"1", "5", "5">>, ok)
          \/ \E p \in Procs, mid \in MsgIdInputs, e \in Genuine :
                WebhookVerify(p, mid, <<"1", "5", "5">>, e)
          \/ WebhookSteps(Procs)
    \/ \E p \in Procs : Recycle(p)

SpecRace == Init /\ [][NextRace]_vars

\* credentials minted by confirmations, then concurrent refreshes and logouts
NextRefresh ==
    \/ /\ Quiet
       /\ \/ Tick(REFRESH_TTL)
          \/ attempts = {} /\ InitiateLogin(<<"1", "5", "5">>, TRUE)
          \/ \E e \in Genuine : WebhookVerify(1, 1, <<"1", "5", "5">>, e)
          \/ WebhookSteps({1})
          \/ \E p \in Procs, rt \in RefreshInputs, u \in UserIdInputs :
                RefreshValidate(p, rt, u)
          \/ \E p \in Procs : RefreshRevoke(p)
          \/ \E p \in Procs : RefreshCreate(p)
          \/ \E p \in Procs, rt \in RefreshInputs, u \in UserIdInputs :
                LogoutValidate(p, u, rt)
          \/ \E p \in Procs : LogoutRevoke(p)
          \/ \E p \in Procs, u \in UserIdInputs : LogoutAll(p, u)
    \/ \E p \in Procs : Recycle(p)

SpecRefresh == Init /\ [][NextRefresh]_vars

\* clients waiting on the relay while confirmations arrive
NextRelay ==
    \/ /\ Quiet
       /\ \/ Tick(VERIFICATION_TTL)
          \/ InitiateLogin(<<"1", "5", "5">>, TRUE)
          \/ \E mid \in MsgIdInputs, e \in Genuine :
                WebhookVerify(1, mid, <<"1", "5", "5">>, e)
          \/ WebhookSteps({1})
          \/ WebhookNoDeliver(1)
          \/ \E c \in Chans, sid \in SessionIdInputs : AttachWs(c, sid)
          \/ \E c \in Chans, sid \in SessionIdInputs : AttachWsIdFromString(c, sid)
          \/ \E c \in Chans : WsClose(c)
          \/ \E c \in Chans : WsCloseEvent(c)
    \/ Recycle(1)

SpecRelay == Init /\ [][NextRelay]_vars

\* logins from two phones, then refreshes and logouts, one invocation at a time
NextLogout ==
    \/ /\ Quiet
       /\ \/ Tick(REFRESH_TTL)
          \/ \E ph \in {<<"1", "5", "5">>, <<"+", "4", "4", "-", "7">>} :
                InitiateLogin(ph, TRUE)
          \/ \E mid \in MsgIdInputs, e \in Genuine :
                WebhookVerify(1, mid, <<"1", "5", "5">>, e)
          \/ WebhookSteps({1})
          \/ \E rt \in RefreshInputs, u \in UserIdInputs : RefreshValidate(1, rt, u)
          \/ RefreshRevoke(1)
          \/ RefreshCreate(1)
          \/ \E rt \in RefreshInputs, u \in UserIdInputs : LogoutValidate(1, u, rt)
          \/ LogoutRevoke(1)
          \/ \E u \in UserIdInputs : LogoutAll(1, u)
    \/ Recycle(1)

SpecLogout == Init /\ [][NextLogout]_vars

\* access tokens presented while their owner refreshes and logs out
NextAccess ==
    \/ /\ Quiet
       /\ \/ \E d \in {1, ACCESS_TTL} : Tick(d)
          \/ attempts = {} /\ InitiateLogin(<<"1", "5", "5">>, TRUE)
          \/ \E e \in Genuine : WebhookVerify(1, 1, <<"1", "5", "5">>, e)
          \/ WebhookSteps({1})
          \/ \E rt \in RefreshInputs, u \in UserIdInputs : RefreshValidate(1, rt, u)
          \/ RefreshRevoke(1)
          \/ RefreshCreate(1)
          \/ \E rt \in RefreshInputs, u \in UserIdInputs : LogoutValidate(1, u, rt)
          \/ LogoutRevoke(1)
          \/ \E u \in UserIdInputs : LogoutAll(1, u)
          \/ \E j \in AccessInputs : ValidateAccess(1, j)
    \/ Recycle(1)

SpecAccess == Init /\ [][NextAccess]_vars

\* confirmations and refreshes that fail for every cause: malformed, forged,
\* expired, spent payloads; unknown, expired, exchanged and foreign credentials
NextFailure ==
    \/ /\ Quiet
       /\ \/ Tick(REFRESH_TTL)
          \/ \E ph \in {<<"1", "5", "5">>, <<"+", "4", "4", "-", "7">>} :
                InitiateLogin(ph, TRUE)
          \/ \E mid \in MsgIdInputs, e \in PayloadInputs :
                WebhookVerify(1, mid, <<"1", "5", "5">>, e)
          \/ WebhookSteps({1})
          \/ \E rt \in RefreshInputs, u \in UserIdInputs : RefreshValidate(1, rt, u)
          \/ RefreshRevoke(1)
          \/ RefreshCreate(1)
    \/ Recycle(1)

SpecFailure == Init /\ [][NextFailure]_vars

\* payloads looked at with verifyLoginTokenOnly before and after they are confirmed
NextPeek ==
    \/ /\ Quiet
       /\ \/ \E d \in {1, VERIFICATION_TTL} : Tick(d)
          \/ InitiateLogin(<<"1", "5", "5">>, TRUE)
          \/ \E e \in PayloadInputs : VerifyLoginTokenOnly(1, e)
          \/ \E mid \in MsgIdInputs, e \in Genuine :
                WebhookVerify(1, mid, <<"1", "5", "5">>, e)
          \/ WebhookSteps({1})
    \/ Recycle(1)

SpecPeek == Init /\ [][NextPeek]_vars

\* clients waiting on the relay while webhook deliveries of one button
\* payload are handled concurrently
NextRelayRace ==
    \/ /\ Quiet
       /\ \/ InitiateLogin(<<"1", "5", "5">>, TRUE)
          \/ \E p \in Procs, mid \in MsgIdInputs, e \in Genuine :
                WebhookVerify(p, mid, <<"1", "5", "5">>, e)
          \/ WebhookSteps(Procs)
          \/ \E c \in Chans, sid \in SessionIdInputs : AttachWs(c, sid)
    \/ \E p \in Procs : Recycle(p)

SpecRelayRace == Init /\ [][NextRelayRace]_vars

\* the access tokens the clients have received over their sockets
ReceivedAccess ==
    UNION {{ws[c].inbox[i].authToken : i \in 1..Len(ws[c].inbox)} : c \in Chans}

\* credentials signed in the webhook processor, delivered over the relay and
\* presented to the request worker
NextKey ==
    \/ /\ Quiet
       /\ \/ \E d \in {1, ACCESS_TTL} : Tick(d)
          \/ InitiateLogin(<<"1", "5", "5">>, TRUE)
          \/ \E sid \in SessionIdInputs : AttachWs(1, sid)
          \/ \E mid \in MsgIdInputs, e \in Genuine :
                WebhookVerify(1, mid, <<"1", "5", "5">>, e)
          \/ WebhookConsume(1)
          \/ WebhookFind(1)
          \/ WebhookCreate(1)
          \/ \E secret \in IsolateSecrets, signs \in BOOLEAN :
                WebhookIssueInIsolate(1, secret, signs)
          \/ WebhookDeliver(1)
          \/ WebhookMark(1)
          \/ \E j \in ReceivedAccess : ValidateAccess(1, j)
    \/ Recycle(1)

SpecKey == Init /\ [][NextKey]_vars

\* the delivered payloads, and copies that name the session of another attempt
SessionPayloadInputs ==
    UNION {{encodePayload([parseEncoded(e).v EXCEPT !.sessionId = sid]) :
              sid \in SessionIdInputs} : e \in Delivered}

\* several login attempts confirmed concurrently while clients attach
NextSessions ==
    \/ /\ Quiet
       /\ \/ \E ph \in {<<"1", "5", "5">>, <<"+", "4", "4", "-", "7">>} :
                InitiateLogin(ph, TRUE)
          \/ \E c \in Chans, sid \in SessionIdInputs : AttachWs(c, sid)
          \/ \E p \in Procs, mid \in MsgIdInputs, e \in SessionPayloadInputs :
                WebhookVerify(p, mid, <<"1", "5", "5">>, e)
          \/ WebhookSteps(Procs)
    \/ \E p \in Procs : Recycle(p)

SpecSessions == Init /\ [][NextSessions]_vars

\* the maintenance sweep run at any point between confirms, refreshes and
\* logouts
NextSweep ==
    \/ /\ Quiet
       /\ \/ \E d \in {VERIFICATION_TTL, REFRESH_TTL} : Tick(d)
          \/ /\ Cardinality(attempts) < MaxTokens
             /\ InitiateLogin(<<"1", "5", "5">>, TRUE)
          \/ \E mid \in MsgIdInputs, e \in Genuine :
                WebhookVerify(1, mid, <<"1", "5", "5">>, e)
          \/ WebhookSteps({1})
          \/ \E rt \in RefreshInputs, u \in UserIdInputs : RefreshValidate(1, rt, u)
          \/ RefreshRevoke(1)
          \/ RefreshCreate(1)
          \/ \E rt \in RefreshInputs, u \in UserIdInputs : LogoutValidate(1, u, rt)
          \/ LogoutRevoke(1)
          \/ CleanupVerification(1)
          \/ CleanupRefresh(1)
    \/ Recycle(1)

SpecSweep == Init /\ [][NextSweep]_vars

\* strings given to normalizePhoneNumber: every prefix over "+", "5", "2", "1"
\* and "-", as it is or filled with "0" to the length of a Mexican mobile
\* number with the extra digit, one less and one more
MobileLength == 13

RECURSIVE Strings(_)
Strings(n) ==
    IF n = 0 THEN {<<>>}
    ELSE Strings(n - 1) \cup
         {Append(x, ch) : x \in {y \in Strings(n - 1) : Len(y) = n - 1},
                          ch \in {"+", "5", "2", "1", "-"}}

RECURSIVE Zeros(_)
Zeros(n) == IF n <= 0 THEN <<>> ELSE <<"0">> \o Zeros(n - 1)

PhoneInputs ==
    {x \o Zeros(n - Len(digitsOnly(x))) :
        x \in Strings(MaxPrefix),
        n \in {0, MobileLength - 1, MobileLength, MobileLength + 1}}

\* normalizePhoneNumber(x), in both revisions
PhoneNormalize(p, x) ==
    /\ Start(p)
    /\ SetCall(p, [IdleCall EXCEPT !.kind = "phone", !.pc = "again", !.sender = x,
                    !.result = [tag |-> "phone",
                                once |-> normalizePhoneNumber(x),
                                onceEarlier |-> normalizePhoneNumberEarlier(x)]])
    /\ UNCHANGED <<clock, nextId, db, attempts, processed, relay, hist>>

\* normalizePhoneNumber applied to its own result
PhoneNormalizeAgain(p) ==
    LET c == calls[p]
    IN  /\ c.kind = "phone" /\ c.pc = "again"
        /\ SetCall(p, [c EXCEPT !.pc = "done",
                        !.result = [tag |-> "phone",
                                    once |-> c.result.once,
                                    onceEarlier |-> c.result.onceEarlier,
                                    twice |-> normalizePhoneNumber(c.result.once),
                                    twiceEarlier |->
                                        normalizePhoneNumberEarlier(c.result.onceEarlier)]])
        /\ UNCHANGED <<clock, nextId, db, attempts, processed, relay, hist>>

NextPhone ==
    \/ /\ Quiet
       /\ \/ \E x \in PhoneInputs : PhoneNormalize(1, x)
          \/ PhoneNormalizeAgain(1)
    \/ Recycle(1)

SpecPhone == Init /\ [][NextPhone]_vars

\* one Mexican mobile number, typed with and without the digit after the
\* country code
MobileWithExtraDigit == <<"+", "5", "2", "1">> \o Zeros(MobileLength - 3)
MobileWithoutExtraDigit == <<"+", "5", "2">> \o Zeros(MobileLength - 3)

\* logins with the two spellings of the number
NextMobile ==
    \/ /\ Quiet
       /\ \/ Tick(1)
          \/ \E ph \in {MobileWithExtraDigit, MobileWithoutExtraDigit} :
                InitiateLogin(ph, TRUE)
          \/ \E mid \in MsgIdInputs, e \in Genuine :
                WebhookVerify(1, mid, digitsOnly(MobileWithExtraDigit), e)
          \/ WebhookSteps({1})
    \/ Recycle(1)

SpecMobile == Init /\ [][NextMobile]_vars

---------------------------------------------------------------------------
(* Properties *)

IsWebhook(p) == calls[p].kind = "webhook"
IsRefresh(p) == calls[p].kind = "refresh"

\* the invocation went through validateAndConsumeToken (it was not cut short
\* by the 'processed' flag of its message id)
Confirmed(p) == IsWebhook(p) /\ calls[p].result.tag # "already"

\* the confirm returned null
Rejected(p) == calls[p].pc = "done" /\ calls[p].result = Null

Parsed(p) == parseEncoded(calls[p].payload)

\* the stored rows of the secret a payload carries
RowsOf(e) == {r \in vtokens : r.token_hash = hashToken(SecretOf(e))}

\* C1: of the concurrent confirms of one secret and phone number exactly
\* one returns credentials; no confirm returns credentials for a secret
\* another confirm has already returned credentials for
SpentAtMostOnce == \A p \in Procs : IsWebhook(p) => ~calls[p].dup

\* C2: a confirm that starts after a confirm with the same payload has
\* returned credentials returns null, and never reaches the steps that
\* consume a row, create a user or issue credentials
NoReplay ==
    \A p \in Procs :
        (Confirmed(p) /\ calls[p].late) =>
            /\ Rejected(p)
            /\ calls[p].rec = Empty
            /\ calls[p].userId = Empty

NoReplayWitness ==
    \E p \in Procs :
        /\ Confirmed(p) /\ calls[p].late /\ Rejected(p)
        /\ calls[p].payload \in Delivered
        /\ \E r \in RowsOf(calls[p].payload) : r.expires_at > calls[p].t

\* C5: a payload whose expiresAt is at or before the current time decodes to
\* null; a confirm at a time t at or after the payload's expiresAt or the
\* stored row's expires_at returns null; and no row is ever marked used at or
\* after its expiry, so the rejected consume leaves used_at unset
ExpiredRejected ==
    /\ \A e \in PayloadInputs :
          (parseEncoded(e).ok /\ parseEncoded(e).v.expiresAt <= now) =>
              decodeTokenPayload(e, now) = NoPayload
    /\ \A p \in Procs :
          (/\ Confirmed(p)
           /\ Parsed(p).ok
           /\ \/ Parsed(p).v.expiresAt <= calls[p].t
              \/ \E r \in RowsOf(calls[p].payload) : r.expires_at <= calls[p].t)
          => Rejected(p) /\ calls[p].rec = Empty
    /\ \A r \in vtokens : r.used_at # NoTime => r.used_at < r.expires_at

\* the payload claims a later expiry than the stored row has: decode accepts
\* it, the SELECT rejects it, the row stays unused
ExpiredRejectedWitness ==
    \E p \in Procs :
        /\ Confirmed(p) /\ Rejected(p)
        /\ Parsed(p).ok
        /\ Parsed(p).v.expiresAt > calls[p].t
        /\ \E r \in RowsOf(calls[p].payload) :
              /\ r.phone_number = Parsed(p).v.phoneNumber
              /\ r.expires_at <= calls[p].t
              /\ r.used_at = NoTime

\* C6: a confirmation whose sender's normalized phone number differs from the
\* phone number in the button payload is rejected: it returns null and never
\* consumes the token, creates a user or issues credentials
SenderMismatchRejected ==
    \A p \in Procs :
        (/\ Confirmed(p)
         /\ Parsed(p).ok
         /\ normalizePhoneNumber(calls[p].sender) # Parsed(p).v.phoneNumber)
        => Rejected(p) /\ calls[p].rec = Empty

\* the secret of the payload was never issued
Forged(e) == RowsOf(e) = {}

\* C7: a confirm carrying a secret that was never issued returns null and its
\* step leaves the users, verification_tokens and refresh_tokens tables as
\* they were; a confirm carrying an issued, unexpired payload for a phone with
\* no user is not rejected; and whenever a confirm has returned credentials
\* they are {accessToken, refreshToken, userId} of a user row that exists
\* with the normalized phone number of the payload
ForgedRejectedGenuineAccepted ==
    /\ [](\A p \in Procs :
            /\ (Confirmed(p) /\ Forged(calls[p].payload)) =>
                   Rejected(p) /\ calls[p].rec = Empty /\ calls[p].userId = Empty
            /\ (/\ Confirmed(p)
                /\ calls[p].payload \in Delivered
                /\ findUserByPhone(PhoneOf(calls[p])) = {}
                /\ \E r \in RowsOf(calls[p].payload) : r.expires_at > calls[p].t)
               => ~Rejected(p)
            /\ (IsWebhook(p) /\ calls[p].result.tag = "creds") =>
                   \E u \in users :
                      /\ u.id = calls[p].result.userId
                      /\ u.phone_number = PhoneOf(calls[p])
                      /\ u.phone_number \in {formatPhoneNumber(ph) : ph \in RawPhones}
                      /\ calls[p].result.accessToken.userId = u.id
                      /\ calls[p].result.accessToken.type = "access"
                      /\ \E r \in rtokens :
                            /\ r.token_hash = hashToken(calls[p].result.refreshToken)
                            /\ r.user_id = u.id)
    /\ [][\A p \in Procs :
            (/\ calls[p].pc = "idle"
             /\ calls'[p].kind = "webhook"
             /\ calls'[p].result.tag # "already"
             /\ Forged(calls'[p].payload))
            => /\ calls'[p].result = Null
               /\ UNCHANGED db]_vars

\* an earlier confirm for the phone was rejected, and the confirm carrying the
\* issued payload has created the user and returned its credentials
ForgedRejectedGenuineAcceptedWitness ==
    \E p \in Procs :
        /\ IsWebhook(p) /\ calls[p].result.tag = "creds"
        /\ calls[p].payload \in Delivered
        /\ Parsed(p).v.isNewUser
        /\ Cardinality(vtokens) = 1
        /\ \E m \in processed : m # calls[p].mid
        /\ \E u \in users : /\ u.id = calls[p].result.userId
                            /\ u.phone_number = <<"+", "1", "5", "5">>

\* C8: every confirm that presents a delivered payload whose token is stored,
\* unexpired and unused returns credentials; none ends in an exception
ValidConfirmReturnsCredentials ==
    \A p \in Procs :
        (IsWebhook(p) /\ calls[p].payload \in Delivered /\ calls[p].pc = "done")
        => calls[p].result.tag # "threw"

\* C3: a refresh that starts after a refresh of the same credential has
\* returned is rejected; the first presentation of a credential with its
\* owner's id (unexpired, not logged out) is not rejected; and a refresh that
\* returns has revoked the presented credential and returns a different,
\* stored, unrevoked credential of the same user
RefreshRotation ==
    \A p \in Procs :
        IsRefresh(p) =>
            /\ calls[p].late => Rejected(p)
            /\ calls[p].first => ~Rejected(p)
            /\ (calls[p].pc = "done" /\ calls[p].result.tag = "creds") =>
                  /\ calls[p].result.refreshToken # calls[p].refreshToken
                  /\ \A r \in OwnRows(calls[p].refreshToken, calls[p].userId) :
                        r.revoked_at # NoTime
                  /\ \E r \in OwnRows(calls[p].result.refreshToken, calls[p].userId) :
                        r.revoked_at = NoTime

\* the credential minted by a refresh was itself exchanged once, and its
\* second presentation is rejected
RefreshRotationWitness ==
    \E p \in Procs :
        /\ IsRefresh(p) /\ calls[p].late /\ Rejected(p)
        /\ calls[p].refreshToken \in rotated
        /\ \E r \in OwnRows(calls[p].refreshToken, calls[p].userId) :
              /\ r.expires_at > calls[p].t
              /\ r.id \notin loggedOut
              /\ \E q \in rotated : q < calls[p].refreshToken

\* C4: of the concurrent refreshes of one credential at most one returns a
\* new credential pair
RotatedAtMostOnce == \A p \in Procs : IsRefresh(p) => ~calls[p].dup

\* the session id of the attempt a delivered payload belongs to
SessionOf(e) == CHOOSE s \in {a.sessionId : a \in {x \in attempts : x.payload = e}} : TRUE

\* C9: when the confirm of an attempt has returned credentials, the step of
\* the webhook processor that follows sends auth_success with exactly those
\* credentials to every open socket attached for the attempt's session id
DeliveredToAttachedClient ==
    [][\A p \in Procs, c \in Chans :
          (/\ IsWebhook(p)
           /\ calls[p].pc = "peek"
           /\ calls'[p].pc = "mark"
           /\ calls[p].payload \in Delivered
           /\ IsOpen(c)
           /\ ws[c].sid = SessionOf(calls[p].payload)
           /\ Holds(idFromName(ws[c].sid), c))
          => ws'[c].inbox = Append(ws[c].inbox, AuthSuccess(calls[p].result))]_vars

\* C10: the session id initiate returns is the one in the payload and the id
\* of the stored row the delivery is addressed with, and every client that
\* went through the attach route for a session id is held by the relay
\* instance the delivery for that id goes to
OneSessionIdOneInstance ==
    /\ \A a \in attempts :
          a.success =>
             /\ parseEncoded(a.payload).v.sessionId = a.sessionId
             /\ \A r \in RowsOf(a.payload) : r.id = a.sessionId
    /\ \A c \in Chans :
          ws[c].state # "none" =>
             \/ Holds(idFromName(ws[c].sid), c)
             \/ ws[c].state = "closed"

\* C11: a deliver to the relay of a session appends its auth_success message
\* exactly once to every open channel the relay holds and to no other
\* channel; no other step adds a message to a channel, and a channel that
\* attaches starts with nothing received, so a deliver that has run is never
\* replayed to a later channel
FanOutWithoutReplay ==
    [][\A c \in Chans :
          /\ (ws[c].state = "none" /\ ws'[c].state # "none") => ws'[c].inbox = <<>>
          /\ (ws[c].state # "none" /\ ws'[c].inbox # ws[c].inbox) =>
                \E p \in Procs :
                   /\ IsWebhook(p) /\ calls[p].pc = "peek" /\ calls'[p].pc = "mark"
                   /\ \A d \in Chans :
                         ws'[d].inbox =
                            IF Holds(idFromName(ws[c].sid), d) /\ IsOpen(d)
                            THEN Append(ws[d].inbox, AuthSuccess(calls[p].result))
                            ELSE ws[d].inbox]_vars

\* two channels of one session have each received the one message delivered
FanOutWithoutReplayWitness ==
    \E c, d \in Chans :
        /\ c # d
        /\ IsOpen(c) /\ IsOpen(d)
        /\ ws[c].sid = ws[d].sid
        /\ Len(ws[c].inbox) = 1
        /\ ws[d].inbox = ws[c].inbox
        /\ ws[c].inbox[1].event = "auth_success"
        /\ Cardinality(spent) = 1

\* a logout(userId) without refresh token starts (and, being one UPDATE, ends)
LogoutAllStep(p) ==
    /\ calls[p].pc = "idle"
    /\ calls'[p].kind = "logout"
    /\ calls'[p].refreshToken = Empty

\* refreshAccessToken(refreshToken, userId) starts
RefreshStep(p) == calls[p].pc = "idle" /\ calls'[p].kind = "refresh"

\* C12: logout(userId) without refresh token leaves every refresh credential
\* of that user revoked; a revoked credential is never unrevoked; and a
\* refreshAccessToken that starts when the credential it presents is revoked
\* returns null
LogoutEverywhere ==
    [][/\ \A p \in Procs :
             LogoutAllStep(p) =>
                \A r \in rtokens :
                   r.user_id = calls'[p].userId =>
                      \E x \in rtokens' : x.id = r.id /\ x.revoked_at # NoTime
       /\ \A r \in rtokens, x \in rtokens' :
             (x.id = r.id /\ r.revoked_at # NoTime) => x.revoked_at # NoTime
       /\ \A p \in Procs :
             (/\ RefreshStep(p)
              /\ \E r \in OwnRows(calls'[p].refreshToken, calls'[p].userId) :
                    r.revoked_at # NoTime)
             => calls'[p].pc = "done" /\ calls'[p].result = Null]_vars

\* after a logout-everywhere that revoked two credentials of a user, a
\* refresh with one of them, unexpired and never exchanged, was rejected
LogoutEverywhereWitness ==
    \E p \in Procs :
        /\ IsRefresh(p) /\ Rejected(p)
        /\ (0 - calls[p].userId) \in loggedOut
        /\ calls[p].refreshToken \notin rotated
        /\ \E r \in OwnRows(calls[p].refreshToken, calls[p].userId) :
              /\ r.id \in loggedOut
              /\ r.expires_at > calls[p].t
              /\ \E x \in rtokens : /\ x.id # r.id
                                     /\ x.user_id = r.user_id
                                     /\ x.revoked_at = r.revoked_at

IsValidate(p) == calls[p].kind = "validate"

\* C13: an issued access credential validates to null at every time at or
\* after its exp and to its { userId } at every time before, in every
\* reachable state of the refresh_tokens table: whatever refreshes and
\* logouts of its user have happened since it was issued
CredentialIndependence ==
    /\ \A j \in IssuedAccess :
          validateAccessToken(j, now) =
             IF j.exp <= now THEN Null ELSE AuthInfo(j.userId)
    /\ \A p \in Procs :
          (IsValidate(p) /\ calls[p].jwt \in IssuedAccess) =>
             calls[p].result =
                IF calls[p].jwt.exp <= calls[p].t THEN Null
                ELSE AuthInfo(calls[p].jwt.userId)

\* the credential still validates after its user refreshed and then logged
\* out everywhere, with every refresh credential of the user revoked
CredentialIndependenceWitness ==
    \E p \in Procs :
        /\ IsValidate(p) /\ calls[p].jwt \in IssuedAccess
        /\ calls[p].result = AuthInfo(calls[p].jwt.userId)
        /\ rotated # {}
        /\ (0 - calls[p].jwt.userId) \in loggedOut
        /\ \A r \in rtokens : r.user_id = calls[p].jwt.userId => r.revoked_at # NoTime

\* C14: validateAccessToken returns { userId } exactly when the signature
\* verifies under the signing key, the token is not expired, its type is
\* "access", it carries a userId and a user row with that id exists; in
\* every other case it returns null
ValidateAccessConditions ==
    \A p \in Procs :
        IsValidate(p) =>
            LET j == calls[p].jwt
                all == /\ j.sig = signJWT(j.userId, j.type, j.iat, j.exp, JWT_SECRET)
                       /\ j.exp > calls[p].t
                       /\ j.type = "access"
                       /\ j.userId # Empty
                       /\ \E u \in users : u.id = j.userId
            IN  calls[p].result = IF all THEN AuthInfo(j.userId) ELSE Null

\* a well signed, unexpired access token naming a user id without a row
ValidateAccessConditionsWitness ==
    \E p \in Procs :
        LET j == calls[p].jwt
        IN  /\ IsValidate(p)
            /\ calls[p].result = Null
            /\ j.sig = signJWT(j.userId, j.type, j.iat, j.exp, JWT_SECRET)
            /\ j.exp > calls[p].t
            /\ j.type = "access"
            /\ j.userId # Empty
            /\ findUserById(j.userId) = {}

IsPhone(p) == calls[p].kind = "phone" /\ calls[p].pc = "done"

\* C15: normalizePhoneNumber applied to its own result returns that result,
\* for every input and in both revisions of the function
NormalizeIdempotent ==
    \A p \in Procs :
        IsPhone(p) =>
            /\ calls[p].result.twice = calls[p].result.once
            /\ calls[p].result.twiceEarlier = calls[p].result.onceEarlier

\* the same for the current revision (utils/phone.ts lines 1-16) alone
NormalizeIdempotentCurrent ==
    \A p \in Procs : IsPhone(p) => calls[p].result.twice = calls[p].result.once

\* C16: initiate stores the token under the canonical phone number, so two
\* attempts for numbers that normalize to the same number store their tokens
\* under one phone number, and the users they confirm are one user row
InitiateCanonicalPhone ==
    /\ \A a, b \in attempts :
          normalizePhoneNumber(a.phone) = normalizePhoneNumber(b.phone) =>
             a.phone = b.phone
    /\ \A r \in vtokens : r.phone_number = normalizePhoneNumber(r.phone_number)
    /\ \A u, v \in users :
          normalizePhoneNumber(u.phone_number) = normalizePhoneNumber(v.phone_number) =>
             u = v

\* C17: when the send succeeds initiate returns success = true with the
\* session id of the attempt (the id of the stored token) and the route
\* answers 200 with it; when the send fails the result is success = false
\* with nothing but an error text, and the route answers 500
\* MESSAGE_SEND_FAILED without session id, payload or secret
InitiateResult ==
    \A a \in attempts :
        LET d == parseEncoded(a.payload).v
        IN  /\ a.result.success = a.success
            /\ a.success =>
                  /\ a.result.sessionId = d.sessionId
                  /\ \E r \in RowsOf(a.payload) : r.id = a.result.sessionId
                  /\ a.response.statusCode = 200
                  /\ a.response.data = [sessionId |-> a.result.sessionId]
            /\ ~a.success =>
                  /\ DOMAIN a.result = {"success", "error"}
                  /\ a.result.error = "Failed to send WhatsApp message"
                  /\ DOMAIN a.response = {"status", "statusCode", "error"}
                  /\ a.response.statusCode = 500
                  /\ a.response.error.code = "MESSAGE_SEND_FAILED"
                  /\ a.response.error.details = a.result.error

\* one attempt whose send failed and one whose send succeeded
InitiateResultWitness ==
    \E a, b \in attempts :
        /\ ~a.success /\ a.response.statusCode = 500
        /\ b.success /\ b.response.statusCode = 200
        /\ b.response.data.sessionId # parseEncoded(a.payload).v.sessionId

\* C18: a step of initiate leaves the users table as it was, and every user
\* row belongs to a phone number one of whose tokens a confirm consumed no
\* later than the row was created; attempts that were abandoned or whose
\* send failed leave no user row
InitiateWritesNoUser ==
    /\ [](\A u \in users :
            \E r \in vtokens :
               /\ r.phone_number = u.phone_number
               /\ r.used_at # NoTime
               /\ r.used_at <= u.created_at)
    /\ [][attempts' # attempts => users' = users]_vars

\* a user exists for a confirmed phone number, none for the phone number of
\* an attempt that was never confirmed
InitiateWritesNoUserWitness ==
    /\ users # {}
    /\ \E a \in attempts :
          /\ findUserByPhone(a.phone) = {}
          /\ \A r \in RowsOf(a.payload) : r.used_at = NoTime

\* logout(userId, refreshToken) starts
LogoutStep(p) ==
    /\ calls[p].pc = "idle"
    /\ calls'[p].kind = "logout"
    /\ calls'[p].refreshToken # Empty

\* the rows a refresh token is valid for with a user id at time t
ValidFor(plainToken, userId, t) ==
    {r \in rtokens : /\ r.token_hash = hashToken(plainToken)
                     /\ r.user_id = userId
                     /\ r.expires_at > t
                     /\ r.revoked_at = NoTime}

\* C19: logout(userId, refreshToken) with a refresh token valid for userId
\* changes nothing when it validates the token, and then revokes exactly the
\* row of that token: every other row of refresh_tokens, of the same user
\* and of other users, stays as it was, and no row is added or removed
SingleTokenLogout ==
    [][\A p \in Procs :
          /\ (LogoutStep(p) /\ ValidFor(calls'[p].refreshToken, calls'[p].userId, now) # {})
             => /\ UNCHANGED db
                /\ calls'[p].pc = "lo_revoke"
                /\ \E r \in ValidFor(calls'[p].refreshToken, calls'[p].userId, now) :
                      calls'[p].rec = r.id
          /\ (calls[p].kind = "logout" /\ calls[p].pc = "lo_revoke" /\ calls'[p].pc = "done")
             => /\ calls'[p].result.tag = "true"
                /\ \A r \in rtokens : r.id # calls[p].rec => r \in rtokens'
                /\ \A x \in rtokens' :
                      \E r \in rtokens :
                         /\ r.id = x.id
                         /\ x.id = calls[p].rec =>
                               /\ x.revoked_at # NoTime
                               /\ x.token_hash = hashToken(calls[p].refreshToken)
                               /\ x.user_id = calls[p].userId
                /\ UNCHANGED <<users, vtokens>>]_vars

\* the logout has revoked the credential presented, and another credential
\* of the same user is still valid
SingleTokenLogoutWitness ==
    \E p \in Procs :
        /\ calls[p].kind = "logout" /\ calls[p].pc = "done"
        /\ calls[p].rec # Empty
        /\ \E r \in rtokens : r.id = calls[p].rec /\ r.revoked_at # NoTime
        /\ \E r \in rtokens : /\ r.id # calls[p].rec
                               /\ r.user_id = calls[p].userId
                               /\ r.revoked_at = NoTime
                               /\ r.expires_at > now

\* C20: every logout that finishes returns true; a logout whose refresh token
\* does not validate for userId (unknown, expired, already revoked or of
\* another user) returns true at once and changes no row
LogoutReturnsTrue ==
    /\ [](\A p \in Procs :
            (calls[p].kind = "logout" /\ calls[p].pc = "done") =>
               calls[p].result.tag = "true")
    /\ [][\A p \in Procs :
            (LogoutStep(p) /\ ValidFor(calls'[p].refreshToken, calls'[p].userId, now) = {})
            => /\ calls'[p].pc = "done"
               /\ calls'[p].result.tag = "true"
               /\ UNCHANGED db]_vars

\* a logout with the valid refresh token of another user has returned true
\* and that credential is still valid
LogoutReturnsTrueWitness ==
    \E p \in Procs :
        /\ calls[p].kind = "logout" /\ calls[p].pc = "done"
        /\ calls[p].result.tag = "true"
        /\ calls[p].rec = Empty
        /\ \E r \in rtokens : /\ r.token_hash = hashToken(calls[p].refreshToken)
                               /\ r.user_id # calls[p].userId
                               /\ r.revoked_at = NoTime
                               /\ r.expires_at > now

\* the stored rows of a refresh secret
RefreshRowsOf(plainToken) == {r \in rtokens : r.token_hash = hashToken(plainToken)}

\* why a refresh token presented with a user id at time t is not valid
RefreshFailure(plainToken, userId, t) ==
    LET rows == RefreshRowsOf(plainToken)
    IN  IF rows = {} THEN "unknown"
        ELSE IF \A r \in rows : r.user_id # userId THEN "wrong-user"
        ELSE IF \A r \in rows : r.expires_at <= t THEN "expired"
        ELSE IF \A r \in rows : r.revoked_at # NoTime THEN "revoked"
        ELSE "none"

\* why a payload presented at time t is not confirmed
ConfirmFailure(e, t) ==
    IF ~parseEncoded(e).ok THEN "malformed"
    ELSE IF RowsOf(e) = {} THEN "unknown"
    ELSE IF \/ parseEncoded(e).v.expiresAt <= t
            \/ \A r \in RowsOf(e) : r.expires_at <= t THEN "expired"
    ELSE IF \A r \in RowsOf(e) : r.used_at # NoTime THEN "used"
    ELSE "none"

\* the answer of POST /api/auth/refresh to every refresh that fails
InvalidRefreshToken ==
    [status |-> "error", statusCode |-> 401,
     error |-> [code |-> "INVALID_REFRESH_TOKEN",
                message |-> "Invalid or expired refresh token"]]

\* a confirm starts and is not cut short by the 'processed' flag
ConfirmStep(p) ==
    /\ calls[p].pc = "idle"
    /\ calls'[p].kind = "webhook"
    /\ calls'[p].result.tag # "already"

\* C21: a refreshAccessToken whose refresh token is unknown, of another
\* user, expired or revoked ends at once with null, the route answers the one
\* 401 INVALID_REFRESH_TOKEN body, and no row changes; a confirm whose
\* payload is malformed, unknown, expired or already used ends at once with
\* null and no row changes: the result is the same for every cause
FailuresIndistinguishable ==
    [][\A p \in Procs :
          /\ (/\ RefreshStep(p)
              /\ RefreshFailure(calls'[p].refreshToken, calls'[p].userId, now) # "none")
             => /\ calls'[p].pc = "done"
                /\ calls'[p].result = Null
                /\ calls'[p].response = InvalidRefreshToken
                /\ UNCHANGED db
          /\ (ConfirmStep(p) /\ ConfirmFailure(calls'[p].payload, now) # "none")
             => /\ calls'[p].pc = "done"
                /\ calls'[p].result = Null
                /\ UNCHANGED db]_vars

\* a refresh with the valid, never exchanged credential of another user has
\* been answered 401, after a confirm was rejected for a used payload
FailuresIndistinguishableWitness ==
    \E p \in Procs :
        /\ IsRefresh(p) /\ calls[p].pc = "done"
        /\ calls[p].response = InvalidRefreshToken
        /\ RefreshFailure(calls[p].refreshToken, calls[p].userId, calls[p].t) = "wrong-user"
        /\ \A r \in RefreshRowsOf(calls[p].refreshToken) :
              r.revoked_at = NoTime /\ r.expires_at > calls[p].t
        /\ Cardinality(processed) = MaxMsgs

\* C22: once the used_at of a verification token row is set, no step gives
\* the row another used_at or resets it to null, under any interleaving of
\* confirms
UsedAtWrittenOnce ==
    [][\A r \in vtokens, x \in vtokens' :
          (x.id = r.id /\ r.used_at # NoTime) => x.used_at = r.used_at]_vars

\* C23: in every store state and at every time, for every payload and the
\* phone number it names, validateTokenOnly reports valid exactly when
\* validateAndConsumeToken would: in particular not for a token whose used_at
\* is set
PeekSameLookupAsConsume ==
    \A e \in PayloadInputs :
        parseEncoded(e).ok =>
            LET phoneNumber == parseEncoded(e).v.phoneNumber
            IN  validateTokenOnly(e, phoneNumber, now).isValid
                   = (validateAndConsumeLookup(e, phoneNumber, now) # {})

\* a step in which verifyLoginTokenOnly runs: on its own, or in
\* handleAuthButtonPayload
PeekStep(p) ==
    \/ calls[p].pc = "idle" /\ calls'[p].kind = "peek"
    \/ IsWebhook(p) /\ calls[p].pc = "peek" /\ calls'[p].pc = "mark"

\* C24: a step in which verifyLoginTokenOnly (validateTokenOnly,
\* getPhoneNumberFromToken, decodeTokenPayload) runs leaves every row of
\* verification_tokens, refresh_tokens and users as it was, so what a consume
\* would find for any payload is the same after the step as before; and a
\* confirm of a delivered payload is rejected only when the payload is
\* expired or used, however often it was peeked
PeekWritesNothing ==
    /\ [][\A p \in Procs :
            PeekStep(p) =>
               /\ UNCHANGED db
               /\ \A e \in PayloadInputs :
                     parseEncoded(e).ok =>
                        LET phoneNumber == parseEncoded(e).v.phoneNumber
                        IN  validateAndConsumeLookup(e, phoneNumber, now)'
                               = validateAndConsumeLookup(e, phoneNumber, now)]_vars
    /\ [](\A p \in Procs :
            (Confirmed(p) /\ Rejected(p) /\ calls[p].payload \in Delivered) =>
               ConfirmFailure(calls[p].payload, calls[p].t) \in {"expired", "used"})

\* a confirm has returned credentials for a payload that was peeked before
\* the confirm started; a malformed and a forged payload were peeked as well
PeekWritesNothingWitness ==
    \E p \in Procs :
        /\ IsWebhook(p) /\ calls[p].result.tag = "creds" /\ calls[p].pc = "done"
        /\ SecretOf(calls[p].payload) \in peeked
        /\ {Empty, ForgedSecret} \subseteq peeked

\* the payload carries the secret and phone number of a delivered payload
\* but is not that payload: some other field was edited
Edited(e) ==
    /\ parseEncoded(e).ok
    /\ e \notin Delivered
    /\ \E g \in Delivered :
          /\ parseEncoded(g).v.token = parseEncoded(e).v.token
          /\ parseEncoded(g).v.phoneNumber = parseEncoded(e).v.phoneNumber

\* C25: a confirm whose payload keeps the issued secret and phone number but
\* differs from the encoded payload in isNewUser, expiresAt, timestamp or
\* sessionId is rejected: it returns null and never consumes the token, so
\* the branch taken at confirm is the one the issued payload names
TamperEvident ==
    \A p \in Procs :
        (Confirmed(p) /\ Edited(calls[p].payload)) =>
            /\ Rejected(p)
            /\ calls[p].rec = Empty

\* C26: after an initiate whose send failed, verification_tokens holds no
\* unused, unexpired row created by that call
FailedInitiateLeavesNoToken ==
    \A a \in attempts :
        ~a.success =>
            \A r \in RowsOf(a.payload) : r.used_at # NoTime \/ r.expires_at <= now

\* C27: over the whole life of a login attempt no attached channel receives
\* more than one auth_success event, whatever webhook deliveries of the
\* button payload arrive, repeated or concurrent
AtMostOneAuthSuccess ==
    \A c \in Chans :
        Len(SelectSeq(ws[c].inbox, LAMBDA m : m.event = "auth_success")) <= 1

\* C28: an access token that confirm issued in the webhook processor and the
\* relay delivered validates in the request worker to its { userId } at
\* every time before its exp (the user exists): it was signed with the key
\* validateAccessToken verifies with; and no confirm that reached the
\* signing ends in an exception
SignedWithTheVerifyingKey ==
    /\ \A p \in Procs :
          (IsValidate(p) /\ calls[p].jwt \in ReceivedAccess
             /\ calls[p].t < calls[p].jwt.exp)
          => calls[p].result = AuthInfo(calls[p].jwt.userId)
    /\ \A p \in Procs :
          (IsWebhook(p) /\ calls[p].userId # Empty) => calls[p].result # Threw

\* the step of a webhook invocation that posts /send-tokens
DeliverStep(p) == IsWebhook(p) /\ calls[p].pc = "peek" /\ calls'[p].pc = "mark"

\* C29: a client that closes its channel changes no other channel and not the
\* relay's set; the close listener removes exactly the closed channel from
\* the set that held it and leaves every other set as it was; a deliver
\* leaves a relay untouched or sends its one message exactly once to every
\* open channel the relay holds, to no closed one, and keeps exactly the
\* open channels, in their order
RelayChannelsIndependent ==
    [][/\ \A c \in Chans :
             (ws[c].state = "open" /\ ws'[c].state = "closed") =>
                /\ sessions' = sessions
                /\ \A d \in Chans \ {c} : ws'[d] = ws[d]
       /\ (sessions' # sessions /\ ws' = ws /\ \A p \in Procs : ~DeliverStep(p)) =>
             \E c \in Chans, inst \in DOMAIN sessions :
                /\ ws[c].state = "closed"
                /\ Holds(inst, c)
                /\ DOMAIN sessions' = DOMAIN sessions
                /\ sessions'[inst] = SelectSeq(sessions[inst], LAMBDA x : x # c)
                /\ \A other \in DOMAIN sessions \ {inst} :
                      sessions'[other] = sessions[other]
       /\ \A p \in Procs :
             DeliverStep(p) =>
                \A inst \in DOMAIN sessions :
                   \/ /\ sessions'[inst] = sessions[inst]
                      /\ \A d \in Chans : Holds(inst, d) => ws'[d] = ws[d]
                   \/ /\ sessions'[inst] = SelectSeq(sessions[inst], IsOpen)
                      /\ \A d \in Chans :
                            Holds(inst, d) =>
                               ws'[d].inbox =
                                  IF IsOpen(d)
                                  THEN Append(ws[d].inbox, AuthSuccess(calls[p].result))
                                  ELSE ws[d].inbox]_vars

\* of two channels attached for one session id one was closed, has received
\* nothing and is no longer held; the other is held, open and has received
\* the one message delivered
RelayChannelsIndependentWitness ==
    \E c, d \in Chans, inst \in DOMAIN sessions :
        /\ ws[c].state = "closed" /\ ws[c].inbox = <<>>
        /\ ws[c].sid = ws[d].sid
        /\ sessions[inst] = <<d>>
        /\ IsOpen(d)
        /\ Len(ws[d].inbox) = 1

\* the session id initiate returned for the attempt that issued the secret
\* of a payload
IssuedSessionOf(e) ==
    CHOOSE sid \in {a.sessionId : a \in {x \in attempts :
                                          SecretOf(x.payload) = SecretOf(e)}} : TRUE

\* C30: a message reaches a channel only in the deliver step of a confirm,
\* it carries the credentials that confirm issued, and the channel was
\* attached under the session id of the attempt whose token the confirm
\* consumed; a channel attached under another session id receives nothing in
\* that step, whatever attaches, confirms and delivers interleave
NoCrossSessionDelivery ==
    [][\A c \in Chans :
          (ws[c].state # "none" /\ ws'[c].inbox # ws[c].inbox) =>
             \E p \in Procs :
                /\ DeliverStep(p)
                /\ ws'[c].inbox = Append(ws[c].inbox, AuthSuccess(calls[p].result))
                /\ ws[c].sid = IssuedSessionOf(calls[p].payload)
                /\ \E r \in vtokens : /\ r.id = ws[c].sid
                                       /\ r.token_hash = hashToken(SecretOf(calls[p].payload))
                                       /\ r.used_at # NoTime]_vars

\* two channels attached under the session ids of two attempts have each
\* received one message, with the credentials of different users
NoCrossSessionDeliveryWitness ==
    \E c, d \in Chans :
        /\ IsOpen(c) /\ IsOpen(d)
        /\ ws[c].sid # ws[d].sid
        /\ Len(ws[c].inbox) = 1 /\ Len(ws[d].inbox) = 1
        /\ ws[c].inbox[1].userId # ws[d].inbox[1].userId

\* C31: a channel receives a message only in the deliver step of a confirm
\* that has returned credentials, after the token row of the channel's
\* session id was marked used; a confirm that returns null or ends in an
\* exception does so in a step that leaves every relay and channel as it
\* was, and never reaches the deliver step
DeliveryAfterConfirmation ==
    /\ [][/\ \A c \in Chans :
                (ws[c].state # "none" /\ ws'[c].inbox # ws[c].inbox) =>
                   \E p \in Procs :
                      /\ DeliverStep(p)
                      /\ calls[p].result.tag = "creds"
                      /\ SecretOf(calls[p].payload) \in spent
                      /\ \E r \in vtokens : r.id = ws[c].sid /\ r.used_at # NoTime
          /\ \A p \in Procs :
                (/\ calls'[p].kind = "webhook"
                 /\ calls'[p].result # calls[p].result
                 /\ calls'[p].result.tag \in {"null", "threw"})
                => /\ UNCHANGED relay
                   /\ calls'[p].pc = "done"
                   /\ calls[p].pc \in {"idle", "create"}]_vars
    /\ [](\A p \in Procs :
            (IsWebhook(p) /\ calls[p].pc \in {"peek", "mark"}) =>
               calls[p].result.tag = "creds")

\* a client has received the credentials of the one confirm that succeeded;
\* another webhook message was processed without credentials and without a
\* second message to the client
DeliveryAfterConfirmationWitness ==
    \E c \in Chans :
        /\ IsOpen(c)
        /\ Len(ws[c].inbox) = 1
        /\ \E r \in vtokens : r.id = ws[c].sid /\ r.used_at # NoTime
        /\ Cardinality(spent) = 1
        /\ Cardinality(processed) = MaxMsgs

\* C32: once the revoked_at of a refresh credential is set, no step changes
\* the row: a later revokeRefreshToken or revokeAllUserRefreshTokens that
\* reaches it leaves revoked_at at its value, and a refresh that starts
\* while it is set is rejected
RevocationTerminal ==
    [][/\ \A r \in rtokens, x \in rtokens' :
             (x.id = r.id /\ r.revoked_at # NoTime) => x = r
       /\ \A p \in Procs :
             (/\ RefreshStep(p)
              /\ \A r \in RefreshRowsOf(calls'[p].refreshToken) : r.revoked_at # NoTime)
             => calls'[p].result = Null]_vars

\* a request that presents a refresh token starts: refresh, or logout
PresentStep(p) ==
    /\ calls[p].pc = "idle"
    /\ calls'[p].kind \in {"refresh", "logout"}
    /\ calls'[p].refreshToken # Empty

\* C33: a refreshAccessToken or logout with user id U and a refresh token
\* that is stored for another user ends at once without credentials and
\* changes no row; and no step of a refresh or logout for U changes a
\* refresh_tokens row whose user_id differs from U
BoundToUser ==
    [][\A p \in Procs :
          /\ (/\ PresentStep(p)
              /\ RefreshFailure(calls'[p].refreshToken, calls'[p].userId, now)
                    = "wrong-user")
             => /\ calls'[p].pc = "done"
                /\ calls'[p].result.tag \in {"null", "true"}
                /\ calls'[p].rec = Empty
                /\ UNCHANGED db
          /\ (calls'[p].kind \in {"refresh", "logout"} /\ calls'[p] # calls[p])
             => \A r \in rtokens : r.user_id # calls'[p].userId => r \in rtokens']_vars

\* a refresh with the valid credential of another user has returned null,
\* and that credential is still unrevoked
BoundToUserWitness ==
    \E p \in Procs :
        /\ IsRefresh(p) /\ Rejected(p)
        /\ \E r \in RefreshRowsOf(calls[p].refreshToken) :
              /\ r.user_id # calls[p].userId
              /\ r.revoked_at = NoTime
              /\ r.expires_at > calls[p].t
        /\ \E r \in rtokens : r.user_id = calls[p].userId /\ r.revoked_at = NoTime

\* C34: the step of a confirm that issues credentials adds one unrevoked
\* refresh_tokens row of its user and changes no other row; the revoke step
\* of a refresh changes the presented row only, and its create step adds one
\* row and changes none: every other credential of the user that was valid
\* before is the same row afterwards
IssuingRevokesNoOther ==
    [][\A p \in Procs :
          /\ ((IsWebhook(p) /\ calls[p].pc = "issue" /\ calls'[p].pc = "peek")
                 \/ (IsRefresh(p) /\ calls[p].pc = "create" /\ calls'[p].pc = "done"))
             => /\ rtokens \subseteq rtokens'
                /\ \E r \in rtokens' \ rtokens :
                      /\ rtokens' = rtokens \cup {r}
                      /\ r.user_id = calls[p].userId
                      /\ r.revoked_at = NoTime
                      /\ r.token_hash = hashToken(calls'[p].result.refreshToken)
                      /\ \A x \in rtokens : x.id # r.id /\ x.token_hash # r.token_hash
          /\ (IsRefresh(p) /\ calls[p].pc = "revoke" /\ calls'[p].pc = "create")
             => /\ \A r \in rtokens : r.id # calls[p].rec => r \in rtokens'
                /\ {r.id : r \in rtokens'} = {r.id : r \in rtokens}]_vars

\* a refresh has returned a new credential, the presented one is revoked,
\* and a third credential of the same user is still valid
IssuingRevokesNoOtherWitness ==
    \E p \in Procs :
        /\ IsRefresh(p) /\ calls[p].pc = "done" /\ calls[p].result.tag = "creds"
        /\ \E r \in rtokens :
              /\ r.user_id = calls[p].userId
              /\ r.revoked_at = NoTime
              /\ r.expires_at > now
              /\ r.token_hash # hashToken(calls[p].result.refreshToken)
              /\ r.created_at <= calls[p].t

\* a step of cleanupExpiredTokens
CleanupStep(p) ==
    \/ calls[p].pc = "idle" /\ calls'[p].kind = "cleanup"
    \/ calls[p].kind = "cleanup" /\ calls[p].pc = "cl_refresh" /\ calls'[p].pc = "done"

\* the times of a lookup made after the present moment
LaterTimes == {now, now + 1, now + VERIFICATION_TTL, now + REFRESH_TTL}

Handed(p) == IsWebhook(p) /\ calls[p].result.tag # "already"

\* C36: of the deliveries of one message id at most one hands its button
\* payload to verifyLogin: two invocations with the same message id are never
\* both past the 'processed' check, and an invocation past it runs for a
\* message id whose flag is not stored
ProcessedAtMostOnce ==
    /\ \A p, q \in Procs :
          (p # q /\ Handed(p) /\ Handed(q)) => calls[p].mid # calls[q].mid
    /\ \A p \in Procs :
          (Handed(p) /\ calls[p].pc # "done") => calls[p].mid \notin processed

\* the step of a confirm that marks its token used
ConsumeStep(p) == IsWebhook(p) /\ calls[p].pc = "consume" /\ calls'[p].pc # "consume"

\* the times from now to the end of every token's life
LifeTimes == {now, now + 1, now + VERIFICATION_TTL - 1, now + VERIFICATION_TTL}

IsHash(h) == Len(h) = 2 /\ h = hashToken(h[2]) /\ h[2] \in 1..(MaxIds + 1)

\* C38: every verification_tokens and refresh_tokens row has the columns of
\* its INSERT, none of them a secret, and a token_hash that is the hash of a
\* generated secret; the payload of every initiate has the six fields of
\* createVerificationToken, its token is the generated secret whose hash the
\* row of its sessionId holds, and no field of it is that hash; the refresh
\* token a confirm or a refresh returns is the secret whose hash its row holds
HashStoredSecretTravels ==
    /\ \A r \in vtokens :
          /\ DOMAIN r = {"id", "token_hash", "phone_number", "expires_at",
                         "used_at", "created_at"}
          /\ IsHash(r.token_hash)
    /\ \A r \in rtokens :
          /\ DOMAIN r = {"id", "user_id", "token_hash", "expires_at",
                         "created_at", "revoked_at"}
          /\ IsHash(r.token_hash)
    /\ \A a \in attempts :
          /\ parseEncoded(a.payload).ok
          /\ LET d == parseEncoded(a.payload).v
             IN  /\ DOMAIN d = {"token", "isNewUser", "phoneNumber", "timestamp",
                                "expiresAt", "sessionId"}
                 /\ d.token \in 1..(MaxIds + 1)
                 /\ \E r \in vtokens :
                       r.id = d.sessionId /\ r.token_hash = hashToken(d.token)
    /\ \A p \in Procs :
          (calls[p].result.tag = "creds" /\ calls[p].result.refreshToken # Empty) =>
             /\ calls[p].result.refreshToken \in 1..(MaxIds + 1)
             /\ \E r \in rtokens :
                   /\ r.token_hash = hashToken(calls[p].result.refreshToken)
                   /\ r.user_id = calls[p].result.userId

\* a confirm of a delivered payload has returned credentials, and a refresh
\* of a credential has returned new ones: rows of both tables, a payload and
\* two refresh tokens exist
HashStoredSecretTravelsWitness ==
    /\ \E a \in attempts : a.success /\ \E r \in RowsOf(a.payload) : r.used_at # NoTime
    /\ rotated # {}
    /\ \E p \in Procs :
          /\ IsRefresh(p) /\ calls[p].result.tag = "creds"
          /\ Cardinality(rtokens) >= 2

\* C39: every verification_tokens row expires 600 seconds after its
\* created_at, the payload made with it carries the row's created_at as
\* timestamp and the row's expires_at as expiresAt, and every refresh_tokens
\* row expires 30 days (2592000 seconds) after its created_at
FixedTokenLifetime ==
    /\ \A r \in vtokens : r.expires_at = r.created_at + 600
    /\ \A a \in attempts, r \in vtokens :
          LET d == parseEncoded(a.payload).v
          IN  r.id = d.sessionId =>
                 /\ d.expiresAt = r.expires_at
                 /\ d.timestamp = r.created_at
                 /\ d.expiresAt = d.timestamp + 600
    /\ \A r \in rtokens : r.expires_at = r.created_at + 2592000

\* tokens of both tables that were created at different times are stored
\* together, a verification token with its payload
FixedTokenLifetimeWitness ==
    /\ \E r, x \in vtokens : r.created_at < x.created_at
    /\ \E r, x \in rtokens : r.created_at < x.created_at
    /\ \E a \in attempts : \E r \in RowsOf(a.payload) : r.created_at > 1

====
